---------------------------- MODULE Spec2Model ----------------------------
(***************************************************************************)
(* A model of the AMD HSMP mailbox drivers.                                *)
(*                                                                         *)
(*   - src/amd_hsmp.c      : send_message_pci (per-socket mutex, sticky    *)
(*                           "hung" flag), get_system_topology, hsmp_init  *)
(*   - src/unnamed/part_000: hsmp_send_message / __hsmp_send_message       *)
(*                           (per-socket semaphore), hsmp_ioctl            *)
(*   - src/unnamed/part_001: the message identifiers and the message shape *)
(*                                                                         *)
(* Specifications:                                                         *)
(*   Spec      concurrent callers of the exchange operation of one driver  *)
(*   SpecPlat  one caller of part_000 over the whole range of messages     *)
(*   SpecInit  module initialisation: hsmp_init and get_system_topology    *)
(***************************************************************************)
EXTENDS Integers, Sequences, FiniteSets, TLC

VARIABLES
    driver,     \* which driver is loaded: "pci" (amd_hsmp.c) or "plat" (part_000)
    th,         \* th[t]: the call thread t is executing and its local variables
    sockets,    \* sockets[s] = [mutex, hung]              (amd_hsmp.c:179-184)
    hsmp_sem,   \* hsmp_sem[s]: the semaphore count         (part_000:50)
    timedOut,   \* history: some send_message_pci on s has returned -ETIMEDOUT
    init        \* the state of hsmp_init / get_system_topology

vars == <<driver, th, sockets, hsmp_sem, timedOut, init>>

---------------------------------------------------------------------------
(* Program constants *)

MAX_SOCKETS == 2
HSMP_STATUS_NOT_READY == 0
HSMP_STATUS_OK == 1
HSMP_ERR_INVALID_MSG == 254
HSMP_ERR_REQUEST_FAIL == 255
HSMP_MAX_MSG_LEN == 8

\* enum hsmp_message_ids (part_001:15-38)
HSMP_TEST == 1
HSMP_GET_SMU_VER == 2
HSMP_GET_PROTO_VER == 3
HSMP_GET_SOCKET_POWER == 4
HSMP_SET_SOCKET_POWER_LIMIT == 5
HSMP_GET_SOCKET_POWER_LIMIT == 6
HSMP_GET_SOCKET_POWER_LIMIT_MAX == 7
HSMP_SET_BOOST_LIMIT == 8
HSMP_SET_BOOST_LIMIT_SOCKET == 9
HSMP_GET_BOOST_LIMIT == 10
HSMP_GET_PROC_HOT == 11
HSMP_SET_XGMI_LINK_WIDTH == 12
HSMP_SET_DF_PSTATE == 13
HSMP_AUTO_DF_PSTATE == 14
HSMP_GET_FCLK_MCLK == 15
HSMP_GET_CCLK_THROTTLE_LIMIT == 16
HSMP_GET_C0_PERCENT == 17
HSMP_SET_NBIO_DPM_LEVEL == 18
HSMP_RESERVED == 19
HSMP_GET_DDR_BANDWIDTH == 20
HSMP_GET_TEMP_MONITOR == 21
HSMP_MSG_ID_MAX == 22

\* hsmp_set_msgs with a telemetry identifier listed in it as well
hsmp_set_msgs_with_get ==
    << HSMP_SET_SOCKET_POWER_LIMIT, HSMP_SET_BOOST_LIMIT,
       HSMP_SET_BOOST_LIMIT_SOCKET, HSMP_SET_XGMI_LINK_WIDTH,
       HSMP_SET_DF_PSTATE, HSMP_AUTO_DF_PSTATE, HSMP_SET_NBIO_DPM_LEVEL,
       HSMP_GET_PROC_HOT >>

\* static u32 hsmp_set_msgs[] (part_000:55-63)
hsmp_set_msgs ==
    << HSMP_SET_SOCKET_POWER_LIMIT, HSMP_SET_BOOST_LIMIT,
       HSMP_SET_BOOST_LIMIT_SOCKET, HSMP_SET_XGMI_LINK_WIDTH,
       HSMP_SET_DF_PSTATE, HSMP_AUTO_DF_PSTATE, HSMP_SET_NBIO_DPM_LEVEL >>

\* static u32 hsmp_get_msgs[] (part_000:66-80)
hsmp_get_msgs ==
    << HSMP_TEST, HSMP_GET_SMU_VER, HSMP_GET_PROTO_VER, HSMP_GET_SOCKET_POWER,
       HSMP_GET_SOCKET_POWER_LIMIT, HSMP_GET_SOCKET_POWER_LIMIT_MAX,
       HSMP_GET_BOOST_LIMIT, HSMP_GET_PROC_HOT, HSMP_GET_FCLK_MCLK,
       HSMP_GET_CCLK_THROTTLE_LIMIT, HSMP_GET_C0_PERCENT,
       HSMP_GET_DDR_BANDWIDTH, HSMP_GET_TEMP_MONITOR >>

---------------------------------------------------------------------------
(* Bounds of the model *)

MaxArgs == 1        \* callers of Spec pass at most MaxArgs argument words
MaxResp == 2        \* callers of Spec ask for 0..MaxResp response words

Threads == {"t1", "t2"}
Sockets == 0 .. (MAX_SOCKETS - 1)

\* Return values.  OK is 0; the others are the negative errno the code names.
\* PCIBIOS_ERR stands for the non-zero code of a failed
\* pci_{read,write}_config_dword, which the code passes on unchanged.
OK == "0"
ETIMEDOUT == "-ETIMEDOUT"
ENOMSG == "-ENOMSG"
EFAULT == "-EFAULT"
EINVAL == "-EINVAL"
EIO == "-EIO"
ENODEV == "-ENODEV"
ETIME == "-ETIME"
PCIBIOS_ERR == "PCIBIOS_ERR"
NONE == "none"

\* The status words the firmware may post: the three defined ones and an
\* undefined one, 0x1FE, whose low byte is that of HSMP_ERR_INVALID_MSG.
FwStatusValues ==
    { HSMP_STATUS_OK, HSMP_ERR_INVALID_MSG, HSMP_ERR_REQUEST_FAIL, 256 + 254 }

NoOwner == "free"

\* The arguments of a call of one of the functions behind the sysfs files
NoArgs ==
    [socket_id |-> 0, cpu |-> 0, bus_num |-> 0, pstate |-> 0, val |-> 0,
     nul |-> {}, type |-> NONE, attr |-> NONE]

Idle ==
    [ pc |-> "idle", fn |-> NONE, sock |-> 0, msg_id |-> 0, num_args |-> 0,
      response_sz |-> 0, arg_num |-> 0, err |-> OK, mbox_status |-> 0,
      expired |-> FALSE, f_mode |-> NONE, copy |-> FALSE,
      touched |-> FALSE, late |-> FALSE, sawTimeout |-> FALSE,
      reads |-> << >>, log |-> << >>, phys |-> << >>, ioFail |-> NONE,
      releases |-> 0, lockTimeout |-> FALSE,
      fetched |-> FALSE,
      invoked |-> FALSE,
      copied |-> FALSE, partial |-> FALSE, ret |-> NONE,
      slept |-> FALSE, retries |-> 0, nap |-> NONE, polls |-> 0,
      api |-> NONE, a |-> NoArgs, out |-> << >>, sent |-> << >>,
      results |-> << >> ]


SpecMsgIds == { HSMP_TEST }

\* The word counts of the callers of Spec: no words at all, or MaxArgs
\* argument words and MaxResp response words
SpecCounts == { <<0, 0>>, <<MaxArgs, MaxResp>> }

Me(t) == th[t]

\* The registers of the mailbox, amd_hsmp.c:131-133 and part_000:43-45
SMN_HSMP_MSG_ID == 61932852
SMN_HSMP_MSG_RESP == 61933952
SMN_HSMP_MSG_DATA == 61934048

\* SMN_HSMP_MSG_DATA + (arg_num << 2), amd_hsmp.c:384 and 470
DataReg(k) == SMN_HSMP_MSG_DATA + k * 4

\* if (likely(retries < 10)), amd_hsmp.c:416
SHORT_POLLS == 10

\* The config-space registers of the HSMP aperture, amd_hsmp.c:1663-1664
\* and part_000:47-48
HSMP_INDEX_REG == 196
HSMP_DATA_REG == 200

\* How one access to a mailbox register may end: both config-space
\* accesses succeed, the write of the index register fails, or the access
\* to the data register fails
AccessOutcomes == {"ok", "index_fail", "data_fail"}

\* amd_hsmp_rdwr without the test of the result of the index write
amd_hsmp_rdwr_unchecked(address, write, o) ==
    << <<"wr", HSMP_INDEX_REG, address>>,
       <<IF write THEN "wr" ELSE "rd", HSMP_DATA_REG, address>> >>

\* The config-space accesses of one access to the mailbox register at
\* address: the address goes to the index register and, unless that write
\* failed, the data register is written or read (part_000:82-95;
\* smu_pci_write and smu_pci_read, amd_hsmp.c:298-336)
amd_hsmp_rdwr(address, write, o) ==
    IF o = "index_fail"
    THEN << <<"wr", HSMP_INDEX_REG, address>> >>
    ELSE << <<"wr", HSMP_INDEX_REG, address>>,
            <<IF write THEN "wr" ELSE "rd", HSMP_DATA_REG, address>> >>

\* Thread t after a register access that ended as o: th[t].log lists the
\* accesses of the call in the order they are issued, failed ones included;
\* the status reads of the poll loop, any number of them in a row, are
\* listed once.  th[t].phys holds the config-space accesses of the last
\* one and th[t].ioFail how the access that failed ended; th[t].slept
\* tells that the call has slept since it last read the status.
Wr(t, reg, o) ==
    [th[t] EXCEPT !.log = Append(@, <<"wr", reg>>),
                  !.phys = amd_hsmp_rdwr(reg, TRUE, o),
                  !.ioFail = IF o = "ok" THEN @ ELSE o]
Rd(t, reg, o) ==
    [th[t] EXCEPT !.log = Append(@, <<"rd", reg>>),
                  !.phys = amd_hsmp_rdwr(reg, FALSE, o),
                  !.ioFail = IF o = "ok" THEN @ ELSE o]
RdStatus(t, o) ==
    [th[t] EXCEPT !.log =
                     IF @ # << >> /\ @[Len(@)] = <<"rd", SMN_HSMP_MSG_RESP>>
                     THEN @
                     ELSE Append(@, <<"rd", SMN_HSMP_MSG_RESP>>),
                  !.phys = amd_hsmp_rdwr(SMN_HSMP_MSG_RESP, FALSE, o),
                  !.ioFail = IF o = "ok" THEN @ ELSE o,
                  !.slept = FALSE]

At(t, f, p) == th[t].fn = f /\ th[t].pc = p
Upd(t, r) == th' = [th EXCEPT ![t] = r]

---------------------------------------------------------------------------
(* The hardware.  The driver sees the mailbox only through the values its  *)
(* register reads return and through the failure of an access: a status    *)
(* read returns not-ready or any word the firmware may have posted, and    *)
(* every config-space access may fail.  The firmware may never answer.     *)

StatusReadValues == {HSMP_STATUS_NOT_READY} \cup FwStatusValues

\* Expire with a clock that stands still: the deadline is never passed
ExpireClockStalled(t) ==
    /\ th[t].pc \in {"sleep", "poll"}
    /\ ~th[t].expired
    /\ UNCHANGED <<driver, th, sockets, hsmp_sem, timedOut, init>>

\* The wall clock passes the deadline of the poll loop of thread t.
Expire(t) ==
    /\ th[t].pc \in {"sleep", "poll"}
    /\ ~th[t].expired
    /\ Upd(t, [Me(t) EXCEPT !.expired = TRUE])
    /\ UNCHANGED <<driver, sockets, hsmp_sem, timedOut, init>>

---------------------------------------------------------------------------
(* send_message_pci, src/amd_hsmp.c:345-487 *)

\* PciStatusToErr with the comparisons made on the low byte of the status
\* word only
PciStatusToErrLowByte(st) ==
    IF st % 256 = HSMP_ERR_INVALID_MSG THEN ENOMSG
    ELSE IF st % 256 = HSMP_ERR_REQUEST_FAIL THEN EFAULT
    ELSE IF st % 256 # HSMP_STATUS_OK THEN EIO
    ELSE OK

\* Status word -> return value, amd_hsmp.c:449-464
PciStatusToErr(st) ==
    IF st = HSMP_ERR_INVALID_MSG THEN ENOMSG
    ELSE IF st = HSMP_ERR_REQUEST_FAIL THEN EFAULT
    ELSE IF st # HSMP_STATUS_OK THEN EIO
    ELSE OK

\* HungCheck with the test of the flag left out
HungCheckSkipped(s) == FALSE

\* if (unlikely(socket->hung)), amd_hsmp.c:358
HungCheck(s) == sockets[s].hung

\* MutexCanLock with a lock that does not exclude
MutexCanLockAlways(s) == TRUE

\* mutex_lock can take the mutex, amd_hsmp.c:369
MutexCanLock(s) == sockets[s].mutex = NoOwner

\* SetHung with the assignment left out
SetHungDropped(s, e) == sockets

\* SetHung with the flag set after every failed exchange
SetHungOnAnyError(s, e) ==
    IF e # OK THEN [sockets EXCEPT ![s].hung = TRUE] ELSE sockets

\* SetHung with one hung flag for the whole system
SetHungAllSockets(s, e) ==
    IF e = ETIMEDOUT
    THEN [x \in Sockets |-> [sockets[x] EXCEPT !.hung = TRUE]]
    ELSE sockets

\* if (unlikely(err == -ETIMEDOUT)) socket->hung = true, amd_hsmp.c:483-484
SetHung(s, e) ==
    IF e = ETIMEDOUT THEN [sockets EXCEPT ![s].hung = TRUE] ELSE sockets

\* PciRespMore with the loop ending one word early
PciRespMoreShort(t) == th[t].arg_num + 1 < th[t].response_sz

\* while (arg_num < msg->response_sz), amd_hsmp.c:468
PciRespMore(t) == th[t].arg_num < th[t].response_sz

PciCall(t) ==
    /\ driver = "pci"
    /\ th[t].pc = "idle"
    /\ \E s \in Sockets, id \in SpecMsgIds, c \in SpecCounts :
          Upd(t, [Idle EXCEPT !.pc = "chk_hung", !.fn = "pci", !.sock = s,
                              !.msg_id = id, !.num_args = c[1],
                              !.response_sz = c[2], !.late = timedOut[s]])
    /\ UNCHANGED <<driver, sockets, hsmp_sem, timedOut, init>>

\* amd_hsmp.c:354-359
PciCheckHung(t) ==
    /\ At(t, "pci", "chk_hung")
    /\ IF HungCheck(th[t].sock)
          THEN Upd(t, [Me(t) EXCEPT !.pc = "done", !.ret = ETIMEDOUT])
          ELSE Upd(t, [Me(t) EXCEPT !.pc = "lock"])
    /\ UNCHANGED <<driver, sockets, hsmp_sem, timedOut, init>>

\* amd_hsmp.c:369
PciLock(t) ==
    /\ At(t, "pci", "lock")
    /\ MutexCanLock(th[t].sock)
    /\ sockets' = [sockets EXCEPT ![th[t].sock].mutex = t]
    /\ Upd(t, [Me(t) EXCEPT !.pc = "clear", !.touched = TRUE])
    /\ UNCHANGED <<driver, hsmp_sem, timedOut, init>>

\* PciClearStatus with a failed write returning at once instead of going
\* to out_unlock
PciClearStatusNoUnlock(t) ==
    /\ At(t, "pci", "clear")
    /\ \E o \in AccessOutcomes :
          IF o # "ok"
          THEN Upd(t, [Wr(t, SMN_HSMP_MSG_RESP, o) EXCEPT !.pc = "done", !.err = PCIBIOS_ERR,
                                     !.ret = PCIBIOS_ERR])
          ELSE Upd(t, [Wr(t, SMN_HSMP_MSG_RESP, o) EXCEPT !.pc = "args", !.arg_num = 0,
                                     !.mbox_status = HSMP_STATUS_NOT_READY])
    /\ UNCHANGED <<driver, sockets, hsmp_sem, timedOut, init>>

\* amd_hsmp.c:371-379
PciClearStatus(t) ==
    /\ At(t, "pci", "clear")
    /\ \E o \in AccessOutcomes :
          IF o # "ok"
          THEN Upd(t, [Wr(t, SMN_HSMP_MSG_RESP, o) EXCEPT !.pc = "unlock", !.err = PCIBIOS_ERR])
          ELSE Upd(t, [Wr(t, SMN_HSMP_MSG_RESP, o) EXCEPT !.pc = "args", !.arg_num = 0,
                                     !.mbox_status = HSMP_STATUS_NOT_READY])
    /\ UNCHANGED <<driver, sockets, hsmp_sem, timedOut, init>>

\* amd_hsmp.c:381-392
PciWriteArg(t) ==
    /\ At(t, "pci", "args")
    /\ th[t].arg_num < th[t].num_args
    /\ \E o \in AccessOutcomes :
          IF o # "ok"
          THEN Upd(t, [Wr(t, DataReg(th[t].arg_num), o) EXCEPT !.pc = "unlock", !.err = PCIBIOS_ERR])
          ELSE Upd(t, [Wr(t, DataReg(th[t].arg_num), o) EXCEPT !.arg_num = @ + 1])
    /\ UNCHANGED <<driver, sockets, hsmp_sem, timedOut, init>>

\* PciWriteMsgId with a failed trigger write tried again
PciWriteMsgIdRetry(t) ==
    /\ At(t, "pci", "args")
    /\ th[t].arg_num >= th[t].num_args
    /\ \E o \in AccessOutcomes :
          IF o # "ok"
          THEN Upd(t, Wr(t, SMN_HSMP_MSG_ID, o))
          ELSE Upd(t, [Wr(t, SMN_HSMP_MSG_ID, o) EXCEPT !.pc = "sleep", !.expired = FALSE])
    /\ UNCHANGED <<driver, sockets, hsmp_sem, timedOut, init>>

\* amd_hsmp.c:394-406: the trigger write, then the deadline is fixed
PciWriteMsgId(t) ==
    /\ At(t, "pci", "args")
    /\ th[t].arg_num >= th[t].num_args
    /\ \E o \in AccessOutcomes :
          IF o # "ok"
          THEN Upd(t, [Wr(t, SMN_HSMP_MSG_ID, o) EXCEPT !.pc = "unlock", !.err = PCIBIOS_ERR])
          ELSE Upd(t, [Wr(t, SMN_HSMP_MSG_ID, o) EXCEPT !.pc = "sleep", !.expired = FALSE])
    /\ UNCHANGED <<driver, sockets, hsmp_sem, timedOut, init>>

\* SleepKind with the long sleep from the first poll on
SleepKindLong(retries) == "long"

\* retry: usleep_range(25, 50) or usleep_range(1000, 2000),
\* amd_hsmp.c:415-419
SleepKind(retries) == IF retries < SHORT_POLLS THEN "short" ELSE "long"

\* retries++, amd_hsmp.c:439; the count stops at SHORT_POLLS, from where
\* on the test of amd_hsmp.c:416 gives the same answer
NextRetries(retries) ==
    IF retries < SHORT_POLLS THEN retries + 1 ELSE retries

\* retry: usleep_range, amd_hsmp.c:415-419
PciSleep(t) ==
    /\ At(t, "pci", "sleep")
    /\ Upd(t, [Me(t) EXCEPT !.pc = "poll", !.slept = TRUE,
                            !.nap = SleepKind(th[t].retries)])
    /\ UNCHANGED <<driver, sockets, hsmp_sem, timedOut, init>>

\* amd_hsmp.c:421-464: read the status, test the deadline, decode.  The
\* locals of the loop (the deadline, retries) are dead once the loop is
\* left; th[t].nap is the kind of the last sleep and th[t].polls the number
\* of status reads of the loop so far, counted like retries
PciPoll(t) ==
    /\ At(t, "pci", "poll")
    /\ \E o \in AccessOutcomes, st \in StatusReadValues :
          LET r == [RdStatus(t, o) EXCEPT !.expired = FALSE, !.retries = 0,
                                          !.nap = NONE, !.polls = 0]
          IN
          IF o # "ok"
          THEN Upd(t, [r EXCEPT !.pc = "unlock", !.err = PCIBIOS_ERR])
          ELSE IF st = HSMP_STATUS_NOT_READY
          THEN IF th[t].expired
               THEN Upd(t, [r EXCEPT !.pc = "unlock", !.err = ETIMEDOUT,
                                     !.mbox_status = st,
                                     !.sawTimeout = TRUE])
               ELSE Upd(t, [RdStatus(t, o) EXCEPT
                              !.pc = "sleep", !.mbox_status = st,
                              !.retries = NextRetries(@),
                              !.polls = IF @ < SHORT_POLLS
                                        THEN @ + 1 ELSE @])
          ELSE IF PciStatusToErr(st) # OK
          THEN Upd(t, [r EXCEPT !.pc = "unlock", !.mbox_status = st,
                                !.err = PciStatusToErr(st)])
          ELSE Upd(t, [r EXCEPT !.pc = "resp", !.mbox_status = st,
                                !.err = OK, !.arg_num = 0])
    /\ UNCHANGED <<driver, sockets, hsmp_sem, timedOut, init>>

\* amd_hsmp.c:466-478
PciReadResp(t) ==
    /\ At(t, "pci", "resp")
    /\ PciRespMore(t)
    /\ \E o \in AccessOutcomes :
          IF o # "ok"
          THEN Upd(t, [Rd(t, DataReg(th[t].arg_num), o) EXCEPT !.pc = "unlock", !.err = PCIBIOS_ERR])
          ELSE Upd(t, [Rd(t, DataReg(th[t].arg_num), o) EXCEPT !.reads = Append(@, th[t].arg_num),
                                     !.arg_num = @ + 1])
    /\ UNCHANGED <<driver, sockets, hsmp_sem, timedOut, init>>

\* amd_hsmp.c:468, the loop ends
PciRespDone(t) ==
    /\ At(t, "pci", "resp")
    /\ ~PciRespMore(t)
    /\ Upd(t, [Me(t) EXCEPT !.pc = "unlock"])
    /\ UNCHANGED <<driver, sockets, hsmp_sem, timedOut, init>>

\* amd_hsmp.c:480-481
PciUnlock(t) ==
    /\ At(t, "pci", "unlock")
    /\ sockets' = [sockets EXCEPT ![th[t].sock].mutex = NoOwner]
    /\ Upd(t, [Me(t) EXCEPT !.pc = "set_hung", !.releases = @ + 1])
    /\ UNCHANGED <<driver, hsmp_sem, timedOut, init>>

\* amd_hsmp.c:483-486
PciSetHung(t) ==
    /\ At(t, "pci", "set_hung")
    /\ sockets' = SetHung(th[t].sock, th[t].err)
    /\ Upd(t, [Me(t) EXCEPT !.pc = "done", !.ret = th[t].err])
    /\ timedOut' = [timedOut EXCEPT
                      ![th[t].sock] = @ \/ th[t].err = ETIMEDOUT]
    /\ UNCHANGED <<driver, hsmp_sem, init>>

\* The caller has its result and goes on.
Return(t) ==
    /\ th[t].pc = "done"
    /\ Upd(t, Idle)
    /\ UNCHANGED <<driver, sockets, hsmp_sem, timedOut, init>>

NextPci ==
    \E t \in Threads :
        \/ PciCall(t)
        \/ PciCheckHung(t)
        \/ PciLock(t)
        \/ PciClearStatus(t)
        \/ PciWriteArg(t)
        \/ PciWriteMsgId(t)
        \/ PciSleep(t)
        \/ PciPoll(t)
        \/ PciReadResp(t)
        \/ PciRespDone(t)
        \/ PciUnlock(t)
        \/ PciSetHung(t)


---------------------------------------------------------------------------
(* hsmp_send_message and __hsmp_send_message, src/unnamed/part_000:106-227 *)

\* node_to_amd_nb(sock_ind) finds a northbridge with a root device
HasNb(i) == i \in Sockets

\* HsmpValidate with the check of the word counts left out
HsmpValidateNoCounts(sock_ind, msg_id, num_args, response_sz) ==
    IF ~HasNb(sock_ind) THEN ENODEV
    ELSE IF msg_id < HSMP_TEST \/ msg_id >= HSMP_MSG_ID_MAX THEN EINVAL
    ELSE OK

\* The checks of hsmp_send_message before the semaphore, part_000:201-209
HsmpValidate(sock_ind, msg_id, num_args, response_sz) ==
    IF ~HasNb(sock_ind) THEN ENODEV
    ELSE IF msg_id < HSMP_TEST \/ msg_id >= HSMP_MSG_ID_MAX THEN EINVAL
    ELSE IF num_args > HSMP_MAX_MSG_LEN \/ response_sz > HSMP_MAX_MSG_LEN
         THEN EINVAL
    ELSE OK

\* Status word -> return value, part_000:165-175
PlatStatusToErr(st) ==
    IF st = HSMP_STATUS_NOT_READY THEN ETIMEDOUT
    ELSE IF st = HSMP_ERR_INVALID_MSG THEN ENOMSG
    ELSE IF st = HSMP_ERR_REQUEST_FAIL THEN EINVAL
    ELSE IF st # HSMP_STATUS_OK THEN EIO
    ELSE OK

\* down_timeout can take the semaphore, part_000:217
SemCanDown(s) == hsmp_sem[s] > 0

\* while (arg_num < msg->response_sz), part_000:179
PlatRespMore(t) == th[t].arg_num < th[t].response_sz

\* hsmp_send_message returns r to its caller: hsmp_ioctl goes on to
\* copy_to_user when it took the copying path and r is 0 (part_000:311-315);
\* every other caller has its result.
SendReturn(t, r) ==
    IF th[t].copy /\ r = OK
    THEN Upd(t, [Me(t) EXCEPT !.pc = "copyout", !.err = r])
    ELSE Upd(t, [Me(t) EXCEPT !.pc = "done", !.err = r, !.ret = r])

\* A kernel caller of the exported hsmp_send_message
PlatCall(t) ==
    /\ driver = "plat"
    /\ th[t].pc = "idle"
    /\ \E s \in 0 .. MAX_SOCKETS, id \in SpecMsgIds, c \in SpecCounts :
          Upd(t, [Idle EXCEPT !.pc = "validate", !.fn = "plat", !.sock = s,
                              !.msg_id = id, !.num_args = c[1],
                              !.response_sz = c[2], !.invoked = TRUE])
    /\ UNCHANGED <<driver, sockets, hsmp_sem, timedOut, init>>

\* part_000:198-209
PlatValidate(t) ==
    /\ At(t, "plat", "validate")
    /\ LET e == HsmpValidate(th[t].sock, th[t].msg_id,
                             th[t].num_args, th[t].response_sz)
       IN IF e # OK THEN SendReturn(t, e)
                    ELSE Upd(t, [Me(t) EXCEPT !.pc = "down"])
    /\ UNCHANGED <<driver, sockets, hsmp_sem, timedOut, init>>

\* part_000:217, the semaphore is taken
PlatDown(t) ==
    /\ At(t, "plat", "down")
    /\ SemCanDown(th[t].sock)
    /\ hsmp_sem' = [hsmp_sem EXCEPT ![th[t].sock] = @ - 1]
    /\ Upd(t, [Me(t) EXCEPT !.pc = "clear", !.touched = TRUE])
    /\ UNCHANGED <<driver, sockets, timedOut, init>>

\* DownTimeoutErr with the error of the exchange deadline
DownTimeoutErrAsExchange == ETIMEDOUT

\* What down_timeout returns when the wait ends without the semaphore,
\* part_000:217-220
DownTimeoutErr == ETIME

\* part_000:217-220, the bounded wait ends with the semaphore still taken
PlatDownTimeout(t) ==
    /\ At(t, "plat", "down")
    /\ hsmp_sem[th[t].sock] = 0
    /\ IF th[t].copy /\ DownTimeoutErr = OK
       THEN Upd(t, [Me(t) EXCEPT !.pc = "copyout", !.err = DownTimeoutErr,
                                  !.lockTimeout = TRUE])
       ELSE Upd(t, [Me(t) EXCEPT !.pc = "done", !.err = DownTimeoutErr,
                                  !.ret = DownTimeoutErr,
                                  !.lockTimeout = TRUE])
    /\ UNCHANGED <<driver, sockets, hsmp_sem, timedOut, init>>

\* part_000:113-119
PlatClearStatus(t) ==
    /\ At(t, "plat", "clear")
    /\ \E o \in AccessOutcomes :
          IF o # "ok"
          THEN Upd(t, [Wr(t, SMN_HSMP_MSG_RESP, o) EXCEPT !.pc = "up", !.err = PCIBIOS_ERR,
                                     !.mbox_status = HSMP_STATUS_NOT_READY])
          ELSE Upd(t, [Wr(t, SMN_HSMP_MSG_RESP, o) EXCEPT !.pc = "args", !.arg_num = 0,
                                     !.mbox_status = HSMP_STATUS_NOT_READY])
    /\ UNCHANGED <<driver, sockets, hsmp_sem, timedOut, init>>

\* part_000:121-131
PlatWriteArg(t) ==
    /\ At(t, "plat", "args")
    /\ th[t].arg_num < th[t].num_args
    /\ \E o \in AccessOutcomes :
          IF o # "ok"
          THEN Upd(t, [Wr(t, DataReg(th[t].arg_num), o) EXCEPT !.pc = "up", !.err = PCIBIOS_ERR])
          ELSE Upd(t, [Wr(t, DataReg(th[t].arg_num), o) EXCEPT !.arg_num = @ + 1])
    /\ UNCHANGED <<driver, sockets, hsmp_sem, timedOut, init>>

\* part_000:133-148: the trigger write, then the deadline is fixed
PlatWriteMsgId(t) ==
    /\ At(t, "plat", "args")
    /\ th[t].arg_num >= th[t].num_args
    /\ \E o \in AccessOutcomes :
          IF o # "ok"
          THEN Upd(t, [Wr(t, SMN_HSMP_MSG_ID, o) EXCEPT !.pc = "up", !.err = PCIBIOS_ERR])
          ELSE Upd(t, [Wr(t, SMN_HSMP_MSG_ID, o) EXCEPT !.pc = "poll", !.expired = FALSE])
    /\ UNCHANGED <<driver, sockets, hsmp_sem, timedOut, init>>

\* usleep_range at the end of a turn of the loop, part_000:159-162
PlatSleep(t) ==
    /\ At(t, "plat", "sleep")
    /\ Upd(t, [Me(t) EXCEPT !.pc = "poll", !.slept = TRUE])
    /\ UNCHANGED <<driver, sockets, hsmp_sem, timedOut, init>>

\* part_000:150-175: test the deadline, read the status; then decode
PlatPoll(t) ==
    /\ At(t, "plat", "poll")
    /\ IF th[t].expired
       THEN \* time_before(jiffies, timeout) is false: the loop ends
            Upd(t, [Me(t) EXCEPT !.pc = "up", !.expired = FALSE,
                                 !.err = PlatStatusToErr(th[t].mbox_status),
                                 !.sawTimeout = TRUE])
       ELSE \E o \in AccessOutcomes, st \in StatusReadValues :
            IF o # "ok"
            THEN Upd(t, [RdStatus(t, o) EXCEPT !.pc = "up", !.expired = FALSE, !.err = PCIBIOS_ERR])
            ELSE IF st = HSMP_STATUS_NOT_READY
            THEN Upd(t, [RdStatus(t, o) EXCEPT !.pc = "sleep", !.mbox_status = st])
            ELSE IF PlatStatusToErr(st) # OK
            THEN Upd(t, [RdStatus(t, o) EXCEPT !.pc = "up", !.expired = FALSE, !.mbox_status = st,
                                       !.err = PlatStatusToErr(st)])
            ELSE Upd(t, [RdStatus(t, o) EXCEPT !.pc = "resp", !.expired = FALSE, !.mbox_status = st,
                                       !.err = OK, !.arg_num = 0])
    /\ UNCHANGED <<driver, sockets, hsmp_sem, timedOut, init>>

\* part_000:177-188
PlatReadResp(t) ==
    /\ At(t, "plat", "resp")
    /\ PlatRespMore(t)
    /\ \E o \in AccessOutcomes :
          IF o # "ok"
          THEN Upd(t, [Rd(t, DataReg(th[t].arg_num), o) EXCEPT !.pc = "up", !.err = PCIBIOS_ERR])
          ELSE Upd(t, [Rd(t, DataReg(th[t].arg_num), o) EXCEPT !.reads = Append(@, th[t].arg_num),
                                     !.arg_num = @ + 1])
    /\ UNCHANGED <<driver, sockets, hsmp_sem, timedOut, init>>

\* part_000:179 and 190, the loop ends
PlatRespDone(t) ==
    /\ At(t, "plat", "resp")
    /\ ~PlatRespMore(t)
    /\ Upd(t, [Me(t) EXCEPT !.pc = "up"])
    /\ UNCHANGED <<driver, sockets, hsmp_sem, timedOut, init>>

\* part_000:222-226
PlatUp(t) ==
    /\ At(t, "plat", "up")
    /\ hsmp_sem' = [hsmp_sem EXCEPT ![th[t].sock] = @ + 1]
    /\ IF th[t].copy /\ th[t].err = OK
       THEN Upd(t, [Me(t) EXCEPT !.pc = "copyout", !.releases = @ + 1])
       ELSE Upd(t, [Me(t) EXCEPT !.pc = "done", !.ret = th[t].err,
                                  !.releases = @ + 1])
    /\ UNCHANGED <<driver, sockets, timedOut, init>>

PlatSteps(t) ==
    \/ PlatValidate(t)
    \/ PlatDown(t)
    \/ PlatDownTimeout(t)
    \/ PlatClearStatus(t)
    \/ PlatWriteArg(t)
    \/ PlatWriteMsgId(t)
    \/ PlatPoll(t)
    \/ PlatSleep(t)
    \/ PlatReadResp(t)
    \/ PlatRespDone(t)
    \/ PlatUp(t)

NextPlat == \E t \in Threads : PlatCall(t) \/ PlatSteps(t)

---------------------------------------------------------------------------
(* hsmp_ioctl, src/unnamed/part_000:263-319 *)

\* fp->f_mode & (FMODE_WRITE | FMODE_READ)
FModes == {"0", "R", "W", "RW"}

\* search_msg_list, part_000:263-272
search_msg_list(msgid, list) ==
    IF \E i \in 1 .. Len(list) : msgid = list[i] THEN OK ELSE EINVAL

\* IoctlRoute with the list check of the write-only case left out
IoctlRouteNoWriteCheck(f_mode, msg_id) ==
    CASE f_mode = "W" -> "send"
      [] f_mode = "R" ->
           IF search_msg_list(msg_id, hsmp_get_msgs) # OK THEN EINVAL
           ELSE "send_copy"
      [] f_mode = "RW" ->
           IF search_msg_list(msg_id, hsmp_set_msgs) = OK THEN "send"
           ELSE IF search_msg_list(msg_id, hsmp_get_msgs) # OK THEN EINVAL
           ELSE "send_copy"
      [] OTHER -> EINVAL

\* IoctlRoute with the copy back for a set message of a caller that may
\* read and write
IoctlRouteCopySet(f_mode, msg_id) ==
    CASE f_mode = "W" ->
           IF search_msg_list(msg_id, hsmp_set_msgs) # OK THEN EINVAL
           ELSE "send"
      [] f_mode = "R" ->
           IF search_msg_list(msg_id, hsmp_get_msgs) # OK THEN EINVAL
           ELSE "send_copy"
      [] f_mode = "RW" ->
           IF search_msg_list(msg_id, hsmp_set_msgs) = OK THEN "send_copy"
           ELSE IF search_msg_list(msg_id, hsmp_get_msgs) # OK THEN EINVAL
           ELSE "send_copy"
      [] OTHER -> EINVAL

\* The switch of hsmp_ioctl, part_000:283-309: -EINVAL, or the message is
\* sent and its result returned ("send"), or it is sent and copied back
\* to the caller ("send_copy").
IoctlRoute(f_mode, msg_id) ==
    CASE f_mode = "W" ->
           IF search_msg_list(msg_id, hsmp_set_msgs) # OK THEN EINVAL
           ELSE "send"
      [] f_mode = "R" ->
           IF search_msg_list(msg_id, hsmp_get_msgs) # OK THEN EINVAL
           ELSE "send_copy"
      [] f_mode = "RW" ->
           IF search_msg_list(msg_id, hsmp_set_msgs) = OK THEN "send"
           ELSE IF search_msg_list(msg_id, hsmp_get_msgs) # OK THEN EINVAL
           ELSE "send_copy"
      [] OTHER -> EINVAL

\* The message fields a caller of SpecPlat may pass: every identifier from
\* 0 to one past HSMP_MSG_ID_MAX, word counts on both sides of the maximum,
\* every socket index and one past the last.
WideMsgIds == 0 .. (HSMP_MSG_ID_MAX + 1)
WideCounts == {0, HSMP_MAX_MSG_LEN, HSMP_MAX_MSG_LEN + 1}
WideSocks == 0 .. MAX_SOCKETS

\* A kernel caller of the exported hsmp_send_message, any message
PlatCallWide(t) ==
    /\ driver = "plat"
    /\ th[t].pc = "idle"
    /\ \E s \in WideSocks, id \in WideMsgIds,
          na \in WideCounts, rs \in WideCounts :
          Upd(t, [Idle EXCEPT !.pc = "validate", !.fn = "plat", !.sock = s,
                              !.msg_id = id, !.num_args = na,
                              !.response_sz = rs, !.invoked = TRUE])
    /\ UNCHANGED <<driver, sockets, hsmp_sem, timedOut, init>>

\* A user process calls ioctl(HSMP_IOCTL_CMD) with a message in its buffer
IoctlCall(t) ==
    /\ driver = "plat"
    /\ th[t].pc = "idle"
    /\ \E m \in FModes, s \in WideSocks, id \in WideMsgIds,
          na \in WideCounts, rs \in WideCounts :
          Upd(t, [Idle EXCEPT !.pc = "ioctl", !.fn = "plat", !.f_mode = m,
                              !.sock = s, !.msg_id = id, !.num_args = na,
                              !.response_sz = rs])
    /\ UNCHANGED <<driver, sockets, hsmp_sem, timedOut, init>>

\* part_000:280-309
IoctlDispatch(t) ==
    /\ At(t, "plat", "ioctl")
    /\ \E ufail \in BOOLEAN :
          LET r == IoctlRoute(th[t].f_mode, th[t].msg_id) IN
          IF ufail   \* copy_struct_from_user fails
          THEN Upd(t, [Me(t) EXCEPT !.pc = "done", !.err = EFAULT,
                                     !.ret = EFAULT])
          ELSE IF r = EINVAL
          THEN Upd(t, [Me(t) EXCEPT !.pc = "done", !.fetched = TRUE,
                                     !.err = r, !.ret = r])
          ELSE Upd(t, [Me(t) EXCEPT !.pc = "validate", !.fetched = TRUE,
                                     !.invoked = TRUE,
                                     !.copy = (r = "send_copy")])
    /\ UNCHANGED <<driver, sockets, hsmp_sem, timedOut, init>>

\* How much of the message copy_to_user has written when it returns: all
\* of it (it returns 0), or none or only a leading part of it (it returns
\* the number of bytes it could not write)
CopyOutcomes == {"all", "none", "part"}

\* part_000:315-318
IoctlCopyOut(t) ==
    /\ At(t, "plat", "copyout")
    /\ \E o \in CopyOutcomes :
          IF o # "all"   \* copy_to_user fails
          THEN Upd(t, [Me(t) EXCEPT !.pc = "done", !.err = EFAULT,
                                     !.ret = EFAULT,
                                     !.partial = (o = "part")])
          ELSE Upd(t, [Me(t) EXCEPT !.pc = "done", !.copied = TRUE,
                                     !.ret = OK])
    /\ UNCHANGED <<driver, sockets, hsmp_sem, timedOut, init>>

---------------------------------------------------------------------------
(* Concurrent callers of one driver *)

InitDone == [pc |-> "unused"]

Init ==
    /\ driver \in {"pci", "plat"}
    /\ th = [t \in Threads |-> Idle]
    /\ sockets = [s \in Sockets |-> [mutex |-> NoOwner, hung |-> FALSE]]
    /\ hsmp_sem = [s \in Sockets |-> 1]
    /\ timedOut = [s \in Sockets |-> FALSE]
    /\ init = InitDone

Next ==
    \/ NextPci
    \/ NextPlat
    \/ \E t \in Threads : Expire(t)
    \/ \E t \in Threads : Return(t)

Spec == Init /\ [][Next]_vars

---------------------------------------------------------------------------
(* One caller of part_000 over the whole range of messages *)

InitPlat ==
    /\ driver = "plat"
    /\ th = [t \in Threads |-> Idle]
    /\ sockets = [s \in Sockets |-> [mutex |-> NoOwner, hung |-> FALSE]]
    /\ hsmp_sem = [s \in Sockets |-> 1]
    /\ timedOut = [s \in Sockets |-> FALSE]
    /\ init = InitDone

NextPlatOne ==
    \E t \in {"t1"} :
        \/ PlatCallWide(t)
        \/ IoctlCall(t)
        \/ IoctlDispatch(t)
        \/ PlatValidate(t)
        \/ PlatDown(t)
        \/ PlatClearStatus(t)
        \/ PlatWriteArg(t)
        \/ PlatWriteMsgId(t)
        \/ PlatPoll(t)
        \/ PlatSleep(t)
        \/ PlatReadResp(t)
        \/ PlatRespDone(t)
        \/ PlatUp(t)
        \/ IoctlCopyOut(t)
        \/ Expire(t)
        \/ Return(t)

SpecPlat == InitPlat /\ [][NextPlatOne]_vars

---------------------------------------------------------------------------
(* Concurrent callers under a fair scheduler and an advancing clock *)

LiveResp == 1       \* callers of SpecLive pass and ask for LiveResp words

\* The sockets the callers of SpecLive call: the sockets being alike to
\* both drivers, the first caller stays on socket 0 and the second takes
\* the same or the other socket
LiveSockets(t) == IF t = "t1" THEN {0} ELSE Sockets

\* A caller of send_message_pci, with as many argument words as response
\* words
PciCallLive(t) ==
    /\ driver = "pci"
    /\ th[t].pc = "idle"
    /\ \E s \in LiveSockets(t), n \in {LiveResp} :
          Upd(t, [Idle EXCEPT !.pc = "chk_hung", !.fn = "pci", !.sock = s,
                              !.msg_id = HSMP_TEST, !.num_args = n,
                              !.response_sz = n,
                              !.late = timedOut[s]])
    /\ UNCHANGED <<driver, sockets, hsmp_sem, timedOut, init>>

\* A caller of hsmp_send_message, with as many argument words as response
\* words
PlatCallLive(t) ==
    /\ driver = "plat"
    /\ th[t].pc = "idle"
    /\ \E s \in LiveSockets(t), n \in {LiveResp} :
          Upd(t, [Idle EXCEPT !.pc = "validate", !.fn = "plat", !.sock = s,
                              !.msg_id = HSMP_TEST, !.num_args = n,
                              !.response_sz = n,
                              !.invoked = TRUE])
    /\ UNCHANGED <<driver, sockets, hsmp_sem, timedOut, init>>

\* The steps of send_message_pci that wait for nothing but the scheduler
PciSteps(t) ==
    \/ PciCheckHung(t)
    \/ PciClearStatus(t)
    \/ PciWriteArg(t)
    \/ PciWriteMsgId(t)
    \/ PciSleep(t)
    \/ PciPoll(t)
    \/ PciReadResp(t)
    \/ PciRespDone(t)
    \/ PciUnlock(t)
    \/ PciSetHung(t)

NextLive ==
    \E t \in Threads :
        \/ PciCallLive(t)
        \/ PlatCallLive(t)
        \/ PciLock(t)
        \/ PciSteps(t)
        \/ PlatSteps(t)
        \/ Expire(t)
        \/ Return(t)

\* The scheduler runs every call that can take a step, the clock passes
\* every deadline, and mutex_lock hands the mutex to a waiter that finds it
\* free again and again (amd_hsmp.c:369); down_timeout ends by itself
\* (part_000:217).
FairLive ==
    \A t \in Threads :
        /\ WF_vars(Expire(t))
        /\ WF_vars(PciSteps(t))
        /\ SF_vars(PciLock(t))
        /\ WF_vars(PlatSteps(t))

SpecLive == Init /\ [][NextLive]_vars /\ FairLive

---------------------------------------------------------------------------
(* get_system_topology and hsmp_init, src/amd_hsmp.c:1654-1988 *)

MAX_NBIOS == 8
F19_MAX_NBIOS == 8
MAX_PCI_BUSSES == 32
U8 == 256

ENOTSUPP == "-ENOTSUPP"
EBADE == "-EBADE"
OOPS == "oops"
NULL == 0

MaxOther == 1       \* devices enumerated that are not host bridges
MaxFwDev == 1       \* IOHCMISC registers that hold another base than expected

\* The platforms: n host bridges (IOHC), 0 to one more than MAX_NBIOS, on
\* root buses first, first + stride, ..., found in ascending or in
\* descending bus order; and the buses of the other devices.
RECURSIVE BusSeq(_, _, _)
BusSeq(first, stride, n) ==
    IF n = 0 THEN << >>
    ELSE Append(BusSeq(first, stride, n - 1), first + stride * (n - 1))

RECURSIVE Reverse(_)
Reverse(q) == IF q = << >> THEN << >> ELSE Append(Reverse(Tail(q)), Head(q))

\* Four host bridges found in neither order
Scrambled == { <<32, 0, 48, 16>> }

Platforms ==
    LET up == { BusSeq(first, 16, n) : first \in {0, 16},
                                       n \in 0 .. (MAX_NBIOS + 1) }
              \cup { BusSeq(first, 64, n) : first \in {0, 16}, n \in 1 .. 4 }
    IN up \cup { Reverse(q) : q \in up } \cup Scrambled

\* The bus numbers an IOHCMISC register may hold besides the expected one:
\* one below the lowest root bus of some platforms, one inside the range of
\* another tile
IohcBuses == {0, 80}
OtherBuses == {1, 32}

\* The CPUs hsmp_init may find itself on, amd_hsmp.c:1955-1970
Cpus == {"f19_m00_0f", "f19_m30_3f", "f19_other_model", "other_family"}

\* The protocol versions the firmware may report
ProtoVersions == 0 .. 5

NbioZero ==
    [dev |-> NULL, socket_id |-> 0, bus_base |-> 0, bus_limit |-> 0, id |-> 0]

\* The statics of amd_hsmp.c before hsmp_init runs, and its inputs
InitStart(c, devs) ==
    [ pc |-> "start", cpu |-> c, devs |-> devs,
      nbios |-> [k \in 0 .. (MAX_NBIOS - 1) |-> NbioZero],
      num_nbios |-> 0, ndev |-> 0, nother |-> 0, fwdev |-> 0,
      amd_num_sockets |-> 0,
      sockdev |-> [k \in Sockets |-> NULL],
      num_busses |-> 0, pci_busses |-> << >>, otherSeen |-> {},
      stamps |-> [k \in 0 .. (MAX_NBIOS - 1) |-> {}],
      i |-> 0, socket_id |-> 0, err |-> OK, topoErr |-> NONE,
      attempts |-> 0, mismatch |-> FALSE, testFailed |-> {},
      proto_ver |-> 0, sysfs |-> FALSE,
      registered |-> FALSE, ret |-> NONE,
      f1a |-> FALSE, sock |-> << >>, steps |-> << >>, via |-> << >> ]

SetInit(r) ==
    /\ init' = r
    /\ UNCHANGED <<driver, th, hsmp_sem, timedOut>>

\* bus_to_nbio, amd_hsmp.c:489-500: the index of the first record whose
\* range holds bus_num, or -1 for NULL
bus_to_nbio(nb, bus_num) ==
    LET hit == { k \in 0 .. (MAX_NBIOS - 1) :
                   bus_num >= nb[k].bus_base /\ bus_num <= nb[k].bus_limit }
    IN IF hit = {} THEN -1
       ELSE CHOOSE k \in hit : \A m \in hit : k <= m

\* amd_hsmp.c:1765-1774
SwapIfLess(nb, i, j) ==
    IF nb[j].bus_base < nb[i].bus_base
    THEN [nb EXCEPT ![i].dev = nb[j].dev, ![i].bus_base = nb[j].bus_base,
                    ![j].dev = nb[i].dev, ![j].bus_base = nb[i].bus_base]
    ELSE nb

\* The inner loop, amd_hsmp.c:1764-1775
RECURSIVE SortInner(_, _, _, _)
SortInner(nb, i, j, n) ==
    IF j < n THEN SortInner(SwapIfLess(nb, i, j), i, j + 1, n) ELSE nb

\* SortOuter with the device of position i cached before the inner loop
\* has brought the smallest remaining base there
RECURSIVE SortOuterCacheFirst(_, _, _, _)
SortOuterCacheFirst(nb, sd, i, n) ==
    IF i < n - 1
    THEN LET nb2 == SortInner(nb, i, i + 1, n)
             sd2 == IF i = 0 \/ i = 4
                    THEN [sd EXCEPT ![i \div 4] = nb[i].dev] ELSE sd
         IN SortOuterCacheFirst(nb2, sd2, i + 1, n)
    ELSE [nbios |-> nb, sockdev |-> sd]

\* The outer loop with the caching of IOHC0, amd_hsmp.c:1761-1780:
\* the sorted table and the devices cached for the sockets
RECURSIVE SortOuter(_, _, _, _)
SortOuter(nb, sd, i, n) ==
    IF i < n - 1
    THEN LET nb2 == SortInner(nb, i, i + 1, n)
             sd2 == IF i = 0 \/ i = 4
                    THEN [sd EXCEPT ![i \div 4] = nb2[i].dev] ELSE sd
         IN SortOuter(nb2, sd2, i + 1, n)
    ELSE [nbios |-> nb, sockdev |-> sd]

\* BusLimits with each limit one too high: the base of the next record
BusLimitsOverlapping(nb, n) ==
    [k \in 0 .. (MAX_NBIOS - 1) |->
        IF k < n - 1
        THEN [nb[k] EXCEPT !.bus_limit = nb[k + 1].bus_base % U8]
        ELSE IF k = n - 1 THEN [nb[k] EXCEPT !.bus_limit = U8 - 1]
        ELSE nb[k]]

\* amd_hsmp.c:1783-1788, in u8 arithmetic
BusLimits(nb, n) ==
    [k \in 0 .. (MAX_NBIOS - 1) |->
        IF k < n - 1
        THEN [nb[k] EXCEPT !.bus_limit = (nb[k + 1].bus_base - 1) % U8]
        ELSE IF k = n - 1 THEN [nb[k] EXCEPT !.bus_limit = U8 - 1]
        ELSE nb[k]]

\* get_system_topology returns e to hsmp_init, which does not look at it
\* (amd_hsmp.c:1960) and goes on to initialise the mutexes and to
\* hsmp_test_message (amd_hsmp.c:1972-1983)
TopoReturnFrom(r, e) ==
    SetInit([r EXCEPT !.pc = "test", !.topoErr = e, !.socket_id = 0,
                      !.err = OK])

TopoReturn(e) == TopoReturnFrom(init, e)

\* amd_hsmp.c:1954-1970 and 1696-1701
InitCheckCpu ==
    /\ init.pc = "start"
    /\ IF init.cpu \in {"f19_m00_0f", "f19_m30_3f"}
       THEN SetInit([init EXCEPT
               !.pc = "enum",
               !.nbios = [k \in 0 .. (MAX_NBIOS - 1) |->
                            [NbioZero EXCEPT !.bus_base = U8 - 1]]])
       ELSE SetInit([init EXCEPT !.pc = "returned", !.ret = ENODEV])
    /\ UNCHANGED sockets

\* for_each_pci_dev finds a host bridge on bus b, amd_hsmp.c:1714-1729
TopoEnumIohc ==
    /\ init.pc = "enum"
    /\ init.devs # << >>
    /\ LET n == init.num_nbios
           b == Head(init.devs)
       IN IF n = MAX_NBIOS
          THEN TopoReturn(ENOTSUPP)
          ELSE SetInit([init EXCEPT
                  !.devs = Tail(@),
                  !.nbios[n].dev = init.ndev + 1,
                  !.nbios[n].bus_base = b,
                  !.num_nbios = @ + 1,
                  !.ndev = @ + 1,
                  !.pci_busses = Append(@, b),
                  !.num_busses = @ + 1])
    /\ UNCHANGED sockets

\* for_each_pci_dev finds another device, on bus b, amd_hsmp.c:1731-1747
TopoEnumOther ==
    /\ init.pc = "enum"
    /\ init.nother < MaxOther
    /\ \E b \in OtherBuses, soc \in BOOLEAN :
          LET logged == \E k \in 1 .. init.num_busses : init.pci_busses[k] = b
          IN IF soc   \* is_soc_dev(dev)
             THEN SetInit([init EXCEPT !.nother = @ + 1])
             ELSE IF logged
             THEN SetInit([init EXCEPT !.nother = @ + 1,
                                       !.otherSeen = @ \cup {b}])
             ELSE IF init.num_busses = MAX_PCI_BUSSES
             THEN TopoReturn(ENOTSUPP)
             ELSE \* the bus is not logged: nothing is stored
                  SetInit([init EXCEPT !.nother = @ + 1,
                                       !.otherSeen = @ \cup {b}])
    /\ UNCHANGED sockets

\* The device list ends, amd_hsmp.c:1751-1758
TopoEnumEnd ==
    /\ init.pc = "enum"
    /\ init.devs = << >>
    /\ IF init.num_nbios % (F19_MAX_NBIOS \div 2) # 0
       THEN TopoReturn(ENOTSUPP)
       ELSE SetInit([init EXCEPT !.pc = "sort",
                                 !.amd_num_sockets = init.num_nbios \div 4])
    /\ UNCHANGED sockets

\* amd_hsmp.c:1760-1788
TopoSort ==
    /\ init.pc = "sort"
    /\ LET r == SortOuter(init.nbios, init.sockdev, 0, init.num_nbios)
       IN SetInit([init EXCEPT
             !.pc = "iohc", !.i = 0,
             !.nbios = BusLimits(r.nbios, init.num_nbios),
             !.sockdev = r.sockdev])
    /\ UNCHANGED sockets

\* SocketOfTile with every tile put on socket 0
SocketOfTileZero(i) == 0

\* int socket_id = i >> 2, amd_hsmp.c:1796
SocketOfTile(i) == i \div 4

\* int nbio_id = i & 0x3, amd_hsmp.c:1797
NbioIdOfTile(i) == i % 4

\* One turn of the loop of amd_hsmp.c:1790-1824.  The IOHCMISC register
\* of tile i holds the base bus of the record at position i, or, for at
\* most MaxFwDev of the tiles, one of IohcBuses.  stamps[k]
\* keeps the turns i of the loop that wrote record k.
TopoReadIohc ==
    /\ init.pc = "iohc"
    /\ init.i < init.num_nbios
    /\ \E fail \in BOOLEAN,
          base \in {init.nbios[init.i].bus_base} \cup IohcBuses :
          LET k == bus_to_nbio(init.nbios, base)
              dev == base # init.nbios[init.i].bus_base
              \* smu_pci_read(socket->dev, ...), amd_hsmp.c:1798-1803
              w == [init EXCEPT
                      !.via = Append(@, init.sockdev[SocketOfTile(init.i)])]
          IN
          /\ dev => init.fwdev < MaxFwDev
          /\ IF fail \/ k = -1
             THEN TopoReturnFrom(w, ENODEV)
             ELSE SetInit([w EXCEPT
                     !.nbios[k].socket_id = SocketOfTile(init.i),
                     !.nbios[k].id = NbioIdOfTile(init.i),
                     !.stamps[k] = @ \cup {init.i},
                     !.fwdev = IF dev THEN @ + 1 ELSE @,
                     !.i = @ + 1])
    /\ UNCHANGED sockets

\* amd_hsmp.c:1791 and 1832
TopoDone ==
    /\ init.pc = "iohc"
    /\ init.i >= init.num_nbios
    /\ TopoReturn(OK)
    /\ UNCHANGED sockets

\* What one hsmp_send_message (send_message_pci) of hsmp_init on socket s
\* may return, amd_hsmp.c:345-487
ExchangeResults(s) ==
    IF sockets[s].hung THEN {ETIMEDOUT}
    ELSE IF init.sockdev[s] = NULL THEN {OOPS}
    ELSE {OK, ETIMEDOUT, ENOMSG, EFAULT, EIO, PCIBIOS_ERR}

\* The exchange touches the hardware unless the socket is hung
Attempts(s) == IF sockets[s].hung THEN init.attempts ELSE init.attempts + 1

\* CheckEcho with the comparison left out
CheckEchoIgnored(good) == OK

\* if (msg.response[0] != msg.args[0] + 1) return -EBADE, amd_hsmp.c:1856-1861
\* and part_000:254-258; good: the response word is the argument plus 1
CheckEcho(good) == IF good THEN OK ELSE EBADE

\* One turn of the loop of hsmp_test_message, amd_hsmp.c:1848-1862
InitTestSend ==
    /\ init.pc = "test"
    /\ init.socket_id < init.amd_num_sockets
    /\ \E r \in ExchangeResults(init.socket_id), good \in BOOLEAN :
          /\ sockets' = SetHung(init.socket_id, r)
          /\ IF r = OOPS
             THEN SetInit([init EXCEPT !.pc = "oops",
                                       !.attempts = Attempts(init.socket_id)])
             ELSE IF r # OK
             THEN SetInit([init EXCEPT !.err = r, !.socket_id = @ + 1,
                                       !.testFailed = @ \cup {init.socket_id},
                                       !.attempts = Attempts(init.socket_id)])
             ELSE IF CheckEcho(good) # OK
             THEN SetInit([init EXCEPT !.pc = "returned",
                                       !.err = CheckEcho(good),
                                       !.ret = CheckEcho(good),
                                       !.mismatch = ~good,
                                       !.attempts = Attempts(init.socket_id)])
             ELSE SetInit([init EXCEPT !.err = OK, !.socket_id = @ + 1,
                                       !.mismatch = ~good,
                                       !.attempts = Attempts(init.socket_id)])

\* amd_hsmp.c:1870-1878 and 1983-1985
InitTestEnd ==
    /\ init.pc = "test"
    /\ init.socket_id >= init.amd_num_sockets
    /\ IF init.err # OK
       THEN SetInit([init EXCEPT !.pc = "returned", !.ret = init.err])
       ELSE SetInit([init EXCEPT !.pc = "smu_ver"])
    /\ UNCHANGED sockets

\* hsmp_get_version, HSMP_GET_SMU_VER on socket 0, amd_hsmp.c:1889-1900
InitGetSmuVer ==
    /\ init.pc = "smu_ver"
    /\ \E r \in ExchangeResults(0) :
          /\ sockets' = SetHung(0, r)
          /\ IF r = OOPS
             THEN SetInit([init EXCEPT !.pc = "oops",
                                       !.attempts = Attempts(0)])
             ELSE IF r # OK
             THEN SetInit([init EXCEPT !.pc = "returned", !.err = r,
                                       !.ret = r, !.attempts = Attempts(0)])
             ELSE SetInit([init EXCEPT !.pc = "proto_ver",
                                       !.attempts = Attempts(0)])

\* HSMP_GET_PROTO_VER on socket 0, then is_proto_ver_support,
\* amd_hsmp.c:1902-1946
InitGetProtoVer ==
    /\ init.pc = "proto_ver"
    /\ \E r \in ExchangeResults(0), v \in ProtoVersions :
          /\ sockets' = SetHung(0, r)
          /\ IF r = OOPS
             THEN SetInit([init EXCEPT !.pc = "oops",
                                       !.attempts = Attempts(0)])
             ELSE IF r # OK
             THEN SetInit([init EXCEPT !.pc = "returned", !.err = r,
                                       !.ret = r, !.attempts = Attempts(0)])
             ELSE IF v \notin 1 .. 4
             THEN SetInit([init EXCEPT !.pc = "returned", !.proto_ver = v,
                                       !.ret = ENODEV,
                                       !.attempts = Attempts(0)])
             ELSE SetInit([init EXCEPT !.pc = "returned", !.proto_ver = v,
                                       !.sysfs = TRUE, !.ret = OK,
                                       !.attempts = Attempts(0)])

ENOMEM == "-ENOMEM"

\* What one __hsmp_send_message of hsmp_test may return, part_000:106-191
PlatExchangeResults == {OK, ETIMEDOUT, ENOMSG, EINVAL, EIO, PCIBIOS_ERR}

\* hsmp_plt_init starts on a system with n northbridges, part_000:371-384
PltStart(n) ==
    [InitStart("f19_m00_0f", << >>) EXCEPT !.pc = "plt_start",
                                           !.amd_num_sockets = n]

\* num_sockets = amd_nb_num(); if (num_sockets == 0) return -ENODEV,
\* part_000:381-383
PltInitCheck ==
    /\ init.pc = "plt_start"
    /\ IF init.amd_num_sockets = 0
       THEN SetInit([init EXCEPT !.pc = "returned", !.ret = ENODEV])
       ELSE SetInit([init EXCEPT !.pc = "plt_test", !.socket_id = 0])
    /\ UNCHANGED sockets

\* hsmp_test(i) in the loop of hsmp_plt_init, part_000:230-261 and 386-390
PltTest ==
    /\ init.pc = "plt_test"
    /\ init.socket_id < init.amd_num_sockets
    /\ \E root \in BOOLEAN, r \in PlatExchangeResults, good \in BOOLEAN :
          IF ~root   \* !nb || !nb->root
          THEN SetInit([init EXCEPT !.pc = "returned", !.ret = ENODEV])
          ELSE IF r # OK
          THEN SetInit([init EXCEPT !.pc = "returned", !.err = r, !.ret = r,
                                    !.testFailed = @ \cup {init.socket_id},
                                    !.attempts = @ + 1])
          ELSE IF CheckEcho(good) # OK
          THEN SetInit([init EXCEPT !.pc = "returned",
                                    !.err = CheckEcho(good),
                                    !.ret = CheckEcho(good),
                                    !.mismatch = ~good,
                                    !.attempts = @ + 1])
          ELSE SetInit([init EXCEPT !.socket_id = @ + 1,
                                    !.mismatch = ~good,
                                    !.attempts = @ + 1])
    /\ UNCHANGED sockets

\* platform_driver_register and the platform device, part_000:392-412
PltRegister ==
    /\ init.pc = "plt_test"
    /\ init.socket_id >= init.amd_num_sockets
    /\ \E r \in {OK, ENOMEM, ENODEV} :
          SetInit([init EXCEPT !.pc = "returned", !.ret = r,
                               !.registered = (r = OK)])
    /\ UNCHANGED sockets

\* plat.c:37 and 39
SMN_HSMP_BASE == 61865984
SMN_HSMP_MSG_ID_F1A_M0H == 67892

\* if (hsmp_pdev->proto_ver == HSMP_PROTO_VER6), plat.c:245
HSMP_PROTO_VER6 == 6

\* The argument of the test message, plat.c:231
DEADBEEF == "0xDEADBEEF"

\* One struct hsmp_socket as devm_kcalloc leaves it, plat.c:259-261
SockZero ==
    [sock_ind |-> 0, base_addr |-> 0, msg_id_off |-> 0, msg_resp_off |-> 0,
     msg_arg_off |-> 0, hsmp_sem |-> 0]

\* The offset of the message-id register with the two constants in each
\* other's place
MsgIdOffSwapped(f1a) ==
    IF f1a THEN SMN_HSMP_MSG_ID - SMN_HSMP_BASE ELSE SMN_HSMP_MSG_ID_F1A_M0H

\* if (is_f1a_m0h()) ... SMN_HSMP_MSG_ID_F1A_M0H else SMN_HSMP_MSG_ID,
\* plat.c:221-224; the offsets of plat.c:38-41 are those of amd_hsmp.c
\* less SMN_HSMP_BASE
MsgIdOff(f1a) ==
    IF f1a THEN SMN_HSMP_MSG_ID_F1A_M0H ELSE SMN_HSMP_MSG_ID - SMN_HSMP_BASE

\* What hsmp_test, hsmp_cache_proto_ver and hsmp_get_tbl_dram_base may
\* return to init_platform_device, and the versions the firmware may report
PdevResults == {OK, ETIMEDOUT, EIO}
PdevProtoVersions == {5, HSMP_PROTO_VER6}

\* init_platform_device with a return on a failure of
\* hsmp_get_tbl_dram_base
init_socket_tbl_aborts(i, f1a, node, t, c, v, m) ==
    LET s == [sock_ind |-> i, base_addr |-> SMN_HSMP_BASE,
              msg_id_off |-> MsgIdOff(f1a),
              msg_resp_off |-> SMN_HSMP_MSG_RESP - SMN_HSMP_BASE,
              msg_arg_off |-> SMN_HSMP_MSG_DATA - SMN_HSMP_BASE,
              hsmp_sem |-> 1]
        one == << <<"mbinfo", i, OK>>, <<"test", i, DEADBEEF, t>> >>
        two == Append(one, <<"proto", i, c>>)
    IN IF ~node
       THEN [ret |-> ENODEV, sock |-> SockZero, steps |-> << >>, ver |-> 0]
       ELSE IF t # OK
       THEN [ret |-> t, sock |-> s, steps |-> one, ver |-> 0]
       ELSE IF c # OK
       THEN [ret |-> c, sock |-> s, steps |-> two, ver |-> 0]
       ELSE IF v = HSMP_PROTO_VER6
       THEN [ret |-> m, sock |-> s,
             steps |-> Append(two, <<"tbl", i, m>>), ver |-> v]
       ELSE [ret |-> OK, sock |-> s, steps |-> two, ver |-> v]

\* One turn of the loop of init_platform_device for socket i, plat.c:205-250.
\* node: node_to_amd_nb(i) is not NULL (builds for kernels from 6.15 on do
\* not ask); t, c and m: what hsmp_test, hsmp_cache_proto_ver and
\* hsmp_get_tbl_dram_base return; v: the version hsmp_cache_proto_ver
\* stores.  ret is what the turn returns, or 0 when the loop goes on
init_socket(i, f1a, node, t, c, v, m) ==
    LET s == [sock_ind |-> i, base_addr |-> SMN_HSMP_BASE,
              msg_id_off |-> MsgIdOff(f1a),
              msg_resp_off |-> SMN_HSMP_MSG_RESP - SMN_HSMP_BASE,
              msg_arg_off |-> SMN_HSMP_MSG_DATA - SMN_HSMP_BASE,
              hsmp_sem |-> 1]
        one == << <<"mbinfo", i, OK>>, <<"test", i, DEADBEEF, t>> >>
        two == Append(one, <<"proto", i, c>>)
    IN IF ~node
       THEN [ret |-> ENODEV, sock |-> SockZero, steps |-> << >>, ver |-> 0]
       ELSE IF t # OK
       THEN [ret |-> t, sock |-> s, steps |-> one, ver |-> 0]
       ELSE IF c # OK
       THEN [ret |-> c, sock |-> s, steps |-> two, ver |-> 0]
       ELSE IF v = HSMP_PROTO_VER6
       THEN [ret |-> OK, sock |-> s,
             steps |-> Append(two, <<"tbl", i, m>>), ver |-> v]
       ELSE [ret |-> OK, sock |-> s, steps |-> two, ver |-> v]

\* The platform device of plat.c is about to be probed on a system of n
\* sockets, plat.c:352-379
PdevStart(n, f1a) ==
    [InitStart("f19_m00_0f", << >>) EXCEPT !.pc = "pd_probe",
                                           !.amd_num_sockets = n,
                                           !.f1a = f1a]

\* hsmp_pltdrv_probe up to the call of init_platform_device, plat.c:259-263
PdevProbe ==
    /\ init.pc = "pd_probe"
    /\ \E alloc \in BOOLEAN :
          IF alloc
          THEN SetInit([init EXCEPT
                  !.pc = "pd_init", !.socket_id = 0,
                  !.sock = [k \in 1 .. init.amd_num_sockets |-> SockZero]])
          ELSE SetInit([init EXCEPT !.pc = "returned", !.ret = ENOMEM])
    /\ UNCHANGED sockets

\* One turn of the loop of init_platform_device, plat.c:205-250, and the
\* return of hsmp_pltdrv_probe when it fails, plat.c:265-269
PdevInitSocket ==
    /\ init.pc = "pd_init"
    /\ init.socket_id < init.amd_num_sockets
    /\ \E node \in BOOLEAN, t \in PdevResults, c \in PdevResults,
          v \in PdevProtoVersions, m \in PdevResults :
          LET i == init.socket_id
              r == init_socket(i, init.f1a, node, t, c, v, m)
              w == [init EXCEPT
                      !.sock = IF node THEN [@ EXCEPT ![i + 1] = r.sock]
                               ELSE @,
                      !.steps = @ \o r.steps,
                      !.proto_ver = IF r.ver # 0 THEN r.ver ELSE @]
          IN IF r.ret # OK
             THEN SetInit([w EXCEPT !.pc = "returned", !.ret = r.ret])
             ELSE SetInit([w EXCEPT !.socket_id = i + 1])
    /\ UNCHANGED sockets

\* return hsmp_misc_register(&pdev->dev), plat.c:271
PdevRegister ==
    /\ init.pc = "pd_init"
    /\ init.socket_id >= init.amd_num_sockets
    /\ \E r \in {OK, ENOMEM} :
          SetInit([init EXCEPT !.pc = "returned", !.ret = r,
                               !.registered = (r = OK)])
    /\ UNCHANGED sockets

InitInit ==
    /\ driver \in {"pci", "plat", "platdev"}
    /\ th = [t \in Threads |-> Idle]
    /\ sockets = [s \in Sockets |-> [mutex |-> NoOwner, hung |-> FALSE]]
    /\ hsmp_sem = [s \in Sockets |-> 1]
    /\ timedOut = [s \in Sockets |-> FALSE]
    /\ IF driver = "pci"
       THEN \E c \in Cpus, devs \in Platforms : init = InitStart(c, devs)
       ELSE IF driver = "plat"
       THEN \E n \in 0 .. MAX_SOCKETS : init = PltStart(n)
       ELSE \E n \in 1 .. MAX_SOCKETS, f1a \in BOOLEAN :
               init = PdevStart(n, f1a)

NextInit ==
    \/ InitCheckCpu
    \/ TopoEnumIohc
    \/ TopoEnumOther
    \/ TopoEnumEnd
    \/ TopoSort
    \/ TopoReadIohc
    \/ TopoDone
    \/ InitTestSend
    \/ InitTestEnd
    \/ InitGetSmuVer
    \/ InitGetProtoVer
    \/ PltInitCheck
    \/ PltTest
    \/ PltRegister
    \/ PdevProbe
    \/ PdevInitSocket
    \/ PdevRegister

SpecInit == InitInit /\ [][NextInit]_vars

---------------------------------------------------------------------------
(* The functions of amd_hsmp.c behind its sysfs files,
   src/amd_hsmp.c:489-1085 *)

EOPNOTSUPP == "-EOPNOTSUPP"

\* What the object behind an output pointer holds: nothing (the pointer is
\* NULL), what the caller had put there, a word of the response, or a
\* value computed from an uninitialised variable
NULLPTR == "NULL"
CALLER == "caller"
RESP == "response"
GARBAGE == "uninitialised"

amd_num_sockets == init.amd_num_sockets
amd_hsmp_proto_ver == init.proto_ver

\* The arguments the functions are called with: socket_id is an int, and
\* kobj_to_socket gives -1 for a directory that is no socket's
\* (amd_hsmp.c:1129-1138); bus_num is a u8; pstate is an int
ApiSocketIds == -1 .. MAX_SOCKETS
ApiCpus == 0 .. MAX_SOCKETS
ApiBuses == {0, 15, 16, 40, 255}
ApiPstates == -2 .. 4

\* One CPU on every socket: cpu_present and cpu_data(cpu).phys_proc_id,
\* amd_hsmp.c:779-782
cpu_present(cpu) == cpu \in 0 .. (amd_num_sockets - 1)
phys_proc_id(cpu) == cpu

\* The root bus of the first host bridge of the loaded driver
ApiFirstBuses == {0, 16}

\* The statics after a successful hsmp_init on n sockets whose firmware
\* speaks protocol version v: 4 * n sorted tile records, the first on bus
\* first, stamped with socket and tile number, amd_hsmp.c:1751-1824 and
\* 1902-1946
ApiLoaded(n, v, first) ==
    [ InitStart("f19_m00_0f", << >>) EXCEPT
        !.pc = "returned", !.ret = OK, !.sysfs = TRUE,
        !.proto_ver = v, !.amd_num_sockets = n, !.num_nbios = 4 * n,
        !.nbios = BusLimits(
            [k \in 0 .. (MAX_NBIOS - 1) |->
                IF k < 4 * n
                THEN [dev |-> k + 1, socket_id |-> SocketOfTile(k),
                      bus_base |-> first + 16 * k, bus_limit |-> 0,
                      id |-> NbioIdOfTile(k)]
                ELSE [NbioZero EXCEPT !.bus_base = U8 - 1]], 4 * n),
        !.sockdev = [s \in Sockets |-> IF s < n THEN 4 * s + 1 ELSE NULL] ]

\* What a function decides before it sends: the error it returns at once,
\* or the message it hands to hsmp_send_message
Fail(e) ==
    [err |-> e, sock |-> 0, msg_id |-> 0, num_args |-> 0, response_sz |-> 0,
     arg |-> 0]

Msg(s, id, na, rs, arg) ==
    [err |-> OK, sock |-> s, msg_id |-> id, num_args |-> na,
     response_sz |-> rs, arg |-> arg]

\* if (unlikely(socket_id >= amd_num_sockets)) return -ENODEV,
\* amd_hsmp.c:590
NoSuchSocket(socket_id) == socket_id >= amd_num_sockets

\* amd_hsmp.c:583-602
hsmp_get_power(a) ==
    IF 1 \in a.nul THEN Fail(EINVAL)
    ELSE IF NoSuchSocket(a.socket_id) THEN Fail(ENODEV)
    ELSE Msg(a.socket_id, HSMP_GET_SOCKET_POWER, 0, 1, 0)

\* amd_hsmp.c:609-631
hsmp_set_power_limit(a) ==
    IF NoSuchSocket(a.socket_id) THEN Fail(ENODEV)
    ELSE Msg(a.socket_id, HSMP_SET_SOCKET_POWER_LIMIT, 1, 0, a.val)

\* amd_hsmp.c:640-659
hsmp_get_power_limit(a) ==
    IF 1 \in a.nul THEN Fail(EINVAL)
    ELSE IF NoSuchSocket(a.socket_id) THEN Fail(ENODEV)
    ELSE Msg(a.socket_id, HSMP_GET_SOCKET_POWER_LIMIT, 0, 1, 0)

\* amd_hsmp.c:668-687
hsmp_get_power_limit_max(a) ==
    IF 1 \in a.nul THEN Fail(EINVAL)
    ELSE IF NoSuchSocket(a.socket_id) THEN Fail(ENODEV)
    ELSE Msg(a.socket_id, HSMP_GET_SOCKET_POWER_LIMIT_MAX, 0, 1, 0)

\* amd_hsmp.c:724-746
hsmp_set_boost_limit_socket(a) ==
    IF NoSuchSocket(a.socket_id) THEN Fail(ENODEV)
    ELSE Msg(a.socket_id, HSMP_SET_BOOST_LIMIT_SOCKET, 1, 0, a.val)

\* amd_hsmp.c:772-795
hsmp_get_boost_limit_cpu(a) ==
    IF 1 \in a.nul THEN Fail(EINVAL)
    ELSE IF ~cpu_present(a.cpu) THEN Fail(ENODEV)
    ELSE Msg(phys_proc_id(a.cpu), HSMP_GET_BOOST_LIMIT, 1, 1, a.cpu)

\* amd_hsmp.c:803-822
hsmp_get_proc_hot(a) ==
    IF 1 \in a.nul THEN Fail(EINVAL)
    ELSE IF NoSuchSocket(a.socket_id) THEN Fail(ENODEV)
    ELSE Msg(a.socket_id, HSMP_GET_PROC_HOT, 0, 1, 0)

\* hsmp_set_df_pstate that passes the P-state with HSMP_AUTO_DF_PSTATE too
hsmp_set_df_pstate_auto_arg(a) ==
    IF NoSuchSocket(a.socket_id) THEN Fail(ENODEV)
    ELSE IF a.pstate < -1 \/ a.pstate > 3 THEN Fail(EINVAL)
    ELSE IF a.pstate = -1
    THEN Msg(a.socket_id, HSMP_AUTO_DF_PSTATE, 1, 0, a.pstate)
    ELSE Msg(a.socket_id, HSMP_SET_DF_PSTATE, 1, 0, a.pstate)

\* amd_hsmp.c:905-935
hsmp_set_df_pstate(a) ==
    IF NoSuchSocket(a.socket_id) THEN Fail(ENODEV)
    ELSE IF a.pstate < -1 \/ a.pstate > 3 THEN Fail(EINVAL)
    ELSE IF a.pstate = -1
    THEN Msg(a.socket_id, HSMP_AUTO_DF_PSTATE, 0, 0, 0)
    ELSE Msg(a.socket_id, HSMP_SET_DF_PSTATE, 1, 0, a.pstate)

\* amd_hsmp.c:942-966
hsmp_get_fabric_clocks(a) ==
    IF 1 \in a.nul /\ 2 \in a.nul THEN Fail(EINVAL)
    ELSE IF NoSuchSocket(a.socket_id) THEN Fail(ENODEV)
    ELSE Msg(a.socket_id, HSMP_GET_FCLK_MCLK, 0, 2, 0)

\* amd_hsmp.c:974-993
hsmp_get_max_cclk(a) ==
    IF 1 \in a.nul THEN Fail(EINVAL)
    ELSE IF NoSuchSocket(a.socket_id) THEN Fail(ENODEV)
    ELSE Msg(a.socket_id, HSMP_GET_CCLK_THROTTLE_LIMIT, 0, 1, 0)

\* amd_hsmp.c:1002-1021: the test is socket_id > amd_num_sockets
hsmp_get_c0_residency(a) ==
    IF 1 \in a.nul THEN Fail(EINVAL)
    ELSE IF a.socket_id > amd_num_sockets THEN Fail(ENODEV)
    ELSE Msg(a.socket_id, HSMP_GET_C0_PERCENT, 0, 1, 0)

\* NbioDpmArg with dpm_min and dpm_max in each other's place
NbioDpmArgSwapped(id, pstate) ==
    LET dpm_min == IF pstate = 0 THEN 2 ELSE 0
        dpm_max == IF pstate = 1 THEN 0 ELSE 2
    IN id * 65536 + dpm_min * 256 + dpm_max

\* The argument word of HSMP_SET_NBIO_DPM_LEVEL, amd_hsmp.c:1052-1072
NbioDpmArg(id, pstate) ==
    LET dpm_min == IF pstate = 0 THEN 2 ELSE 0
        dpm_max == IF pstate = 1 THEN 0 ELSE 2
    IN id * 65536 + dpm_max * 256 + dpm_min

\* hsmp_set_nbio_pstate with the test of the protocol version made last
hsmp_set_nbio_pstate_version_last(a) ==
    LET k == bus_to_nbio(init.nbios, a.bus_num)
    IN IF k = -1 THEN Fail(ENODEV)
       ELSE IF a.pstate \notin {-1, 0, 1} THEN Fail(EINVAL)
       ELSE IF amd_hsmp_proto_ver < 2 THEN Fail(EOPNOTSUPP)
       ELSE Msg(init.nbios[k].socket_id, HSMP_SET_NBIO_DPM_LEVEL, 1, 0,
                NbioDpmArg(init.nbios[k].id, a.pstate))

\* amd_hsmp.c:1033-1088
hsmp_set_nbio_pstate(a) ==
    LET k == bus_to_nbio(init.nbios, a.bus_num)
    IN IF amd_hsmp_proto_ver < 2 THEN Fail(EOPNOTSUPP)
       ELSE IF k = -1 THEN Fail(ENODEV)
       ELSE IF a.pstate \notin {-1, 0, 1} THEN Fail(EINVAL)
       ELSE Msg(init.nbios[k].socket_id, HSMP_SET_NBIO_DPM_LEVEL, 1, 0,
                NbioDpmArg(init.nbios[k].id, a.pstate))

\* amd_hsmp.c:502-521
get_ddr_bandwidth_data_raw(a) ==
    IF amd_hsmp_proto_ver < 3 THEN Fail(EOPNOTSUPP)
    ELSE Msg(0, HSMP_GET_DDR_BANDWIDTH, 0, 1, 0)

\* amd_hsmp.c:523-545; hsmp_ddr_max_bandwidth, hsmp_ddr_utilized_bandwidth
\* and hsmp_ddr_utilized_percent (amd_hsmp.c:552-576) call it with one
\* pointer
get_ddr_bandwidth_data(a) ==
    IF a.nul = {1, 2, 3} THEN Fail(EINVAL)
    ELSE get_ddr_bandwidth_data_raw(a)

\* amd_family = c->x86, set by get_system_topology (amd_hsmp.c:1676), which
\* hsmp_init calls on family 19h models 00h-0fh and 30h-3fh only
\* (amd_hsmp.c:1955-1970); the static is zero otherwise
amd_family ==
    IF init.cpu \in {"f19_m00_0f", "f19_m30_3f"} THEN 25 ELSE 0

\* hsmp_set_xgmi_pstate with the two widths in each other's place
hsmp_set_xgmi_pstate_swapped(a) ==
    IF amd_num_sockets < 2 THEN Fail(ENODEV)
    ELSE CASE a.pstate = -1 ->
                Msg(0, HSMP_SET_XGMI_LINK_WIDTH, 1, 0,
                    2 * 256 + (IF amd_family = 25 THEN 0 ELSE 1))
           [] a.pstate = 0 -> Msg(0, HSMP_SET_XGMI_LINK_WIDTH, 1, 0, 514)
           [] a.pstate = 1 -> Msg(0, HSMP_SET_XGMI_LINK_WIDTH, 1, 0, 257)
           [] a.pstate = 2 ->
                IF amd_family = 25
                THEN Msg(0, HSMP_SET_XGMI_LINK_WIDTH, 1, 0, 0)
                ELSE Fail(EINVAL)
           [] OTHER -> Fail(EINVAL)

\* amd_hsmp.c:838-881: the tests of hsmp_set_xgmi_pstate and the message it
\* builds once, args[0] = (width_min << 8) | width_max; the socket is that
\* of the first turn of its loop
hsmp_set_xgmi_pstate(a) ==
    IF amd_num_sockets < 2 THEN Fail(ENODEV)
    ELSE CASE a.pstate = -1 ->
                Msg(0, HSMP_SET_XGMI_LINK_WIDTH, 1, 0,
                    (IF amd_family = 25 THEN 0 ELSE 1) * 256 + 2)
           [] a.pstate = 0 -> Msg(0, HSMP_SET_XGMI_LINK_WIDTH, 1, 0, 514)
           [] a.pstate = 1 -> Msg(0, HSMP_SET_XGMI_LINK_WIDTH, 1, 0, 257)
           [] a.pstate = 2 ->
                IF amd_family = 25
                THEN Msg(0, HSMP_SET_XGMI_LINK_WIDTH, 1, 0, 0)
                ELSE Fail(EINVAL)
           [] OTHER -> Fail(EINVAL)

\* One turn of the loop of hsmp_set_boost_limit_system:
\* _err = hsmp_set_boost_limit_socket(socket_id, limit_mhz), amd_hsmp.c:759
hsmp_set_boost_limit_system(a, socket_id) ==
    hsmp_set_boost_limit_socket([a EXCEPT !.socket_id = socket_id])

\* The bitwise or of two naturals
RECURSIVE BitOr(_, _)
BitOr(x, y) ==
    IF x = 0 THEN y
    ELSE IF y = 0 THEN x
    ELSE (2 * BitOr(x \div 2, y \div 2))
         + (IF (x % 2) = 1 \/ (y % 2) = 1 THEN 1 ELSE 0)

U16 == 65536

\* cpu_data(cpu).apicid of the one CPU of socket cpu: thread 0 of core 2 of
\* the socket, 128 APIC ids to a socket
apicid(cpu) == 128 * cpu + 4

\* apicid << 16 | limit_mhz as an unsigned 32-bit word, amd_hsmp.c:709,
\* computed on its two halves: the shift leaves the low half of the APIC id
\* in the high half of the word, and the or lays both halves of limit_mhz
\* over it
BoostLimitArg(id, limit_mhz) ==
    (BitOr(id % U16, limit_mhz \div U16) * U16) + (limit_mhz % U16)

\* amd_hsmp.c:694-718
hsmp_set_boost_limit_cpu(a) ==
    IF ~cpu_present(a.cpu) THEN Fail(ENODEV)
    ELSE Msg(phys_proc_id(a.cpu), HSMP_SET_BOOST_LIMIT, 1, 0,
             BoostLimitArg(apicid(a.cpu), a.val))

\* The functions that send to every socket in turn
LoopFns == { "hsmp_set_xgmi_pstate", "hsmp_set_boost_limit_system" }

\* The message of the turn of the loop for socket s
LoopMessage(f, a, s) ==
    IF f = "hsmp_set_xgmi_pstate"
    THEN [hsmp_set_xgmi_pstate(a) EXCEPT !.sock = s]
    ELSE hsmp_set_boost_limit_system(a, s)

\* err = _err for every turn, failed or not
LoopErrLast(err, r) == r

\* if (_err) err = _err, amd_hsmp.c:760-761 and 886-890
LoopErr(err, r) == IF r # OK THEN r ELSE err

\* The limits written to the boost_limit files: kstrtouint takes every
\* 32-bit value (amd_hsmp.c:1170)
ApiLimits == {0, 3000, U16 - 1, U16, 2 * U16 + 3000}

\* val / 1000L, hwmon.c:40
MICROWATT_PER_MILLIWATT == 1000

\* x / y of C for y > 0: the quotient is truncated towards zero
CDivFloor(x, y) == x \div y

CDiv(x, y) == IF x >= 0 THEN x \div y ELSE -((-x) \div y)

\* The conversion of x to an unsigned 32-bit word, as its two halves
U32Word(x) ==
    IF x >= 0 THEN << (x \div U16) % U16, x % U16 >>
    ELSE << (U16 - 1) - ((((-x) - 1) \div U16) % U16),
            (U16 - 1) - (((-x) - 1) % U16) >>

\* hwmon.c:24-45
hsmp_hwmon_write(a) ==
    IF a.type # "hwmon_power" THEN Fail(EOPNOTSUPP)
    ELSE IF a.attr # "hwmon_power_cap" THEN Fail(EOPNOTSUPP)
    ELSE Msg(a.socket_id, HSMP_SET_SOCKET_POWER_LIMIT, 1, 0,
             U32Word(CDiv(a.val, MICROWATT_PER_MILLIWATT)))

\* hsmp_hwmon_read that asks for the power limit where the power is read
hsmp_hwmon_read_cap_for_input(a) ==
    IF a.type # "hwmon_power" THEN Fail(EOPNOTSUPP)
    ELSE CASE a.attr = "hwmon_power_input" ->
                Msg(a.socket_id, HSMP_GET_SOCKET_POWER_LIMIT, 0, 1, 0)
           [] a.attr = "hwmon_power_cap" ->
                Msg(a.socket_id, HSMP_GET_SOCKET_POWER_LIMIT, 0, 1, 0)
           [] a.attr = "hwmon_power_cap_max" ->
                Msg(a.socket_id, HSMP_GET_SOCKET_POWER_LIMIT_MAX, 0, 1, 0)
           [] OTHER -> Fail(EOPNOTSUPP)

\* hwmon.c:47-84, up to the call of hsmp_send_message
hsmp_hwmon_read(a) ==
    IF a.type # "hwmon_power" THEN Fail(EOPNOTSUPP)
    ELSE CASE a.attr = "hwmon_power_input" ->
                Msg(a.socket_id, HSMP_GET_SOCKET_POWER, 0, 1, 0)
           [] a.attr = "hwmon_power_cap" ->
                Msg(a.socket_id, HSMP_GET_SOCKET_POWER_LIMIT, 0, 1, 0)
           [] a.attr = "hwmon_power_cap_max" ->
                Msg(a.socket_id, HSMP_GET_SOCKET_POWER_LIMIT_MAX, 0, 1, 0)
           [] OTHER -> Fail(EOPNOTSUPP)

SocketFns ==
    { "hsmp_get_power", "hsmp_set_power_limit", "hsmp_get_power_limit",
      "hsmp_get_power_limit_max", "hsmp_set_boost_limit_socket",
      "hsmp_get_proc_hot", "hsmp_set_df_pstate", "hsmp_get_fabric_clocks",
      "hsmp_get_max_cclk", "hsmp_get_c0_residency" }

DdrFns == { "get_ddr_bandwidth_data_raw", "get_ddr_bandwidth_data" }

ApiFunctions ==
    SocketFns \cup DdrFns \cup LoopFns
    \cup { "hsmp_get_boost_limit_cpu", "hsmp_set_nbio_pstate",
           "hsmp_set_boost_limit_cpu" }

\* The number of output pointers of a function
NumOutputs(f) ==
    IF f \in { "hsmp_set_power_limit", "hsmp_set_boost_limit_socket",
               "hsmp_set_df_pstate", "hsmp_set_nbio_pstate",
               "hsmp_set_boost_limit_cpu", "hsmp_hwmon_write" }
            \cup LoopFns THEN 0
    ELSE IF f = "hsmp_get_fabric_clocks" THEN 2
    ELSE IF f = "get_ddr_bandwidth_data" THEN 3
    ELSE 1

\* The calls of function f: nul is the set of its output pointers that are
\* NULL.  ddr_bandwidth_raw_show is the one caller of
\* get_ddr_bandwidth_data_raw and passes the address of a local
\* (amd_hsmp.c:1303-1315)
ApiInputs(f) ==
    LET nuls == IF f = "get_ddr_bandwidth_data_raw" THEN {{}}
                ELSE SUBSET (1 .. NumOutputs(f))
    IN IF f \in SocketFns
       THEN { [NoArgs EXCEPT !.socket_id = s, !.pstate = p, !.nul = n] :
                s \in ApiSocketIds,
                p \in IF f = "hsmp_set_df_pstate" THEN ApiPstates ELSE {0},
                n \in nuls }
       ELSE IF f = "hsmp_get_boost_limit_cpu"
       THEN { [NoArgs EXCEPT !.cpu = c, !.nul = n] :
                c \in ApiCpus, n \in nuls }
       ELSE IF f = "hsmp_set_nbio_pstate"
       THEN { [NoArgs EXCEPT !.bus_num = b, !.pstate = p] :
                b \in ApiBuses, p \in ApiPstates }
       ELSE IF f = "hsmp_set_boost_limit_cpu"
       THEN { [NoArgs EXCEPT !.cpu = c, !.val = v] :
                c \in ApiCpus, v \in ApiLimits }
       ELSE IF f = "hsmp_set_xgmi_pstate"
       THEN { [NoArgs EXCEPT !.pstate = p] : p \in ApiPstates }
       ELSE IF f = "hsmp_set_boost_limit_system"
       THEN { [NoArgs EXCEPT !.val = v] : v \in {3000} }
       ELSE { [NoArgs EXCEPT !.nul = n] : n \in nuls }

ApiPlan(f, a) ==
    CASE f = "hsmp_get_power" -> hsmp_get_power(a)
      [] f = "hsmp_set_power_limit" -> hsmp_set_power_limit(a)
      [] f = "hsmp_get_power_limit" -> hsmp_get_power_limit(a)
      [] f = "hsmp_get_power_limit_max" -> hsmp_get_power_limit_max(a)
      [] f = "hsmp_set_boost_limit_socket" -> hsmp_set_boost_limit_socket(a)
      [] f = "hsmp_get_boost_limit_cpu" -> hsmp_get_boost_limit_cpu(a)
      [] f = "hsmp_get_proc_hot" -> hsmp_get_proc_hot(a)
      [] f = "hsmp_set_df_pstate" -> hsmp_set_df_pstate(a)
      [] f = "hsmp_get_fabric_clocks" -> hsmp_get_fabric_clocks(a)
      [] f = "hsmp_get_max_cclk" -> hsmp_get_max_cclk(a)
      [] f = "hsmp_get_c0_residency" -> hsmp_get_c0_residency(a)
      [] f = "hsmp_set_nbio_pstate" -> hsmp_set_nbio_pstate(a)
      [] f = "hsmp_set_boost_limit_cpu" -> hsmp_set_boost_limit_cpu(a)
      [] f = "hsmp_set_xgmi_pstate" -> hsmp_set_xgmi_pstate(a)
      [] f = "hsmp_set_boost_limit_system" -> Fail(OK)
      [] f = "hsmp_hwmon_write" -> hsmp_hwmon_write(a)
      [] f = "hsmp_hwmon_read" -> hsmp_hwmon_read(a)
      [] f = "get_ddr_bandwidth_data_raw" -> get_ddr_bandwidth_data_raw(a)
      [] f = "get_ddr_bandwidth_data" -> get_ddr_bandwidth_data(a)

\* The outputs when the function returns err.  The getters write the
\* response through their non-NULL pointers when err is 0 and nothing
\* otherwise (amd_hsmp.c:596-600, 955-963); get_ddr_bandwidth_data, once
\* past its NULL test, writes through its non-NULL pointers what it
\* computes from result, which get_ddr_bandwidth_data_raw has set only when
\* it returned 0 (amd_hsmp.c:532-544)
WriteOutputs(f, a, out, err) ==
    [k \in 1 .. NumOutputs(f) |->
        IF k \in a.nul THEN out[k]
        ELSE IF err = OK THEN RESP
        ELSE IF f = "get_ddr_bandwidth_data" THEN GARBAGE
        ELSE out[k]]

\* What hsmp_send_message(s, &msg) may return: for a socket of the array,
\* as in hsmp_init; for an index outside sockets[MAX_SOCKETS], whatever the
\* memory beside the array makes of it (amd_hsmp.c:352)
SendResults(s) ==
    IF s \in Sockets THEN ExchangeResults(s)
    ELSE {OOPS, OK, ETIMEDOUT, ENOMSG, EFAULT, EIO, PCIBIOS_ERR}

\* The one caller of the functions
ApiCallers == {"t1"}

\* A sysfs handler calls function f
ApiCall(t) ==
    /\ t \in ApiCallers
    /\ th[t].pc = "idle"
    /\ \E f \in ApiFunctions : \E a \in ApiInputs(f) :
          Upd(t, [Idle EXCEPT
                    !.pc = "api_check", !.fn = "api", !.api = f, !.a = a,
                    !.out = [k \in 1 .. NumOutputs(f) |->
                               IF k \in a.nul THEN NULLPTR ELSE CALLER]])
    /\ UNCHANGED <<driver, sockets, hsmp_sem, timedOut, init>>

\* The tests a function makes before it sends, and its early returns
ApiCheck(t) ==
    /\ At(t, "api", "api_check")
    /\ LET p == ApiPlan(th[t].api, th[t].a)
           early == th[t].api = "get_ddr_bandwidth_data"
                    /\ th[t].a.nul = {1, 2, 3}
       IN IF p.err # OK
          THEN Upd(t, [Me(t) EXCEPT
                         !.pc = "api_done", !.ret = p.err,
                         !.out = IF early THEN @
                                 ELSE WriteOutputs(th[t].api, th[t].a, @,
                                                   p.err)])
          ELSE IF th[t].api \in LoopFns
          THEN Upd(t, [Me(t) EXCEPT !.pc = "api_loop", !.sock = 0,
                                    !.ret = OK])
          ELSE Upd(t, [Me(t) EXCEPT
                         !.pc = "api_send", !.sock = p.sock,
                         !.msg_id = p.msg_id, !.num_args = p.num_args,
                         !.response_sz = p.response_sz, !.arg_num = p.arg])
    /\ UNCHANGED <<driver, sockets, hsmp_sem, timedOut, init>>

\* err = hsmp_send_message(socket_id, &msg) and what the function does with
\* the result
ApiSend(t) ==
    /\ At(t, "api", "api_send")
    /\ \E r \in SendResults(th[t].sock) :
          /\ sockets' = IF th[t].sock \in Sockets
                        THEN SetHung(th[t].sock, r) ELSE sockets
          /\ Upd(t, [Me(t) EXCEPT
                       !.pc = IF r = OOPS THEN "oops" ELSE "api_done",
                       !.ret = r,
                       !.sent = Append(@, [sock |-> th[t].sock,
                                           msg_id |-> th[t].msg_id,
                                           num_args |-> th[t].num_args,
                                           response_sz |-> th[t].response_sz,
                                           arg |-> th[t].arg_num]),
                       !.results = Append(@, r),
                       !.out = IF r = OOPS THEN @
                               ELSE WriteOutputs(th[t].api, th[t].a, @, r)])
    /\ UNCHANGED <<driver, hsmp_sem, timedOut, init>>

\* One turn of for (socket_id = 0; socket_id < amd_num_sockets; socket_id++)
\* of hsmp_set_xgmi_pstate (amd_hsmp.c:884-891) and of
\* hsmp_set_boost_limit_system (amd_hsmp.c:758-762), or the return after
\* the last turn
ApiLoop(t) ==
    /\ At(t, "api", "api_loop")
    /\ LET s == th[t].sock
           p == LoopMessage(th[t].api, th[t].a, s)
       IN IF s >= amd_num_sockets
          THEN /\ Upd(t, [Me(t) EXCEPT !.pc = "api_done"])
               /\ UNCHANGED sockets
          ELSE IF p.err # OK
          THEN /\ Upd(t, [Me(t) EXCEPT !.sock = s + 1,
                                       !.ret = LoopErr(@, p.err)])
               /\ UNCHANGED sockets
          ELSE \E r \in SendResults(s) :
                  /\ sockets' = SetHung(s, r)
                  /\ Upd(t, [Me(t) EXCEPT
                               !.pc = IF r = OOPS THEN "oops" ELSE @,
                               !.sock = s + 1,
                               !.ret = LoopErr(@, r),
                               !.results = Append(@, r),
                               !.sent = Append(@,
                                   [sock |-> s, msg_id |-> p.msg_id,
                                    num_args |-> p.num_args,
                                    response_sz |-> p.response_sz,
                                    arg |-> p.arg])])
    /\ UNCHANGED <<driver, hsmp_sem, timedOut, init>>

\* The handler is done with the result
ApiReturn(t) ==
    /\ At(t, "api", "api_done")
    /\ Upd(t, Idle)
    /\ UNCHANGED <<driver, sockets, hsmp_sem, timedOut, init>>

InitApi ==
    /\ driver = "pci"
    /\ th = [t \in Threads |-> Idle]
    /\ sockets = [s \in Sockets |-> [mutex |-> NoOwner, hung |-> FALSE]]
    /\ hsmp_sem = [s \in Sockets |-> 1]
    /\ timedOut = [s \in Sockets |-> FALSE]
    /\ \E n \in 1 .. MAX_SOCKETS, v \in 1 .. 4, first \in ApiFirstBuses :
          init = ApiLoaded(n, v, first)

NextApi ==
    \E t \in ApiCallers :
        \/ ApiCall(t)
        \/ ApiCheck(t)
        \/ ApiSend(t)
        \/ ApiLoop(t)
        \/ ApiReturn(t)

SpecApi == InitApi /\ [][NextApi]_vars

---------------------------------------------------------------------------
(* The sensors of hwmon.c on the platform device of plat.c *)

HwmonFunctions == { "hsmp_hwmon_write", "hsmp_hwmon_read" }

\* The sensor types and attributes the hwmon core may pass, and the values
\* in microwatts written to power1_cap
HwmonTypes == { "hwmon_power", "hwmon_temp" }
HwmonAttrs ==
    { "hwmon_power_input", "hwmon_power_cap", "hwmon_power_cap_max",
      "hwmon_power_max" }
HwmonVals == { -1500, 0, 999, 1000, 1999, 200000000 }

\* The platform device has been probed on n sockets and its sensors exist,
\* plat.c:255-272 and hwmon.c:124-133
HwmonLoaded(n, f1a) ==
    [ PdevStart(n, f1a) EXCEPT
        !.pc = "returned", !.ret = OK, !.registered = TRUE,
        !.socket_id = n,
        !.sock = [k \in 1 .. n |->
                    init_socket(k - 1, f1a, TRUE, OK, OK, 5, OK).sock] ]

\* The hwmon core calls the write or the read operation of the sensor of
\* socket sock_ind, hwmon.c:103-107
HwmonCall(t) ==
    /\ t \in ApiCallers
    /\ th[t].pc = "idle"
    /\ \E f \in HwmonFunctions, s \in 0 .. (init.amd_num_sockets - 1),
          ty \in HwmonTypes, at \in HwmonAttrs, v \in HwmonVals :
          /\ f = "hsmp_hwmon_read" => v = 0
          /\ Upd(t, [Idle EXCEPT
                       !.pc = "api_check", !.fn = "api", !.api = f,
                       !.a = [NoArgs EXCEPT !.socket_id = s, !.type = ty,
                                            !.attr = at, !.val = v],
                       !.out = [k \in 1 .. NumOutputs(f) |-> CALLER]])
    /\ UNCHANGED <<driver, sockets, hsmp_sem, timedOut, init>>

\* ret = hsmp_send_message(&msg) of the platform driver and, in
\* hsmp_hwmon_read, if (!ret) *val = ..., hwmon.c:44 and 74-83
HwmonSend(t) ==
    /\ At(t, "api", "api_send")
    /\ \E r \in PlatExchangeResults :
          Upd(t, [Me(t) EXCEPT
                    !.pc = "api_done", !.ret = r,
                    !.sent = Append(@, [sock |-> th[t].sock,
                                        msg_id |-> th[t].msg_id,
                                        num_args |-> th[t].num_args,
                                        response_sz |-> th[t].response_sz,
                                        arg |-> th[t].arg_num]),
                    !.results = Append(@, r),
                    !.out = WriteOutputs(th[t].api, th[t].a, @, r)])
    /\ UNCHANGED <<driver, sockets, hsmp_sem, timedOut, init>>

InitHwmon ==
    /\ driver = "platdev"
    /\ th = [t \in Threads |-> Idle]
    /\ sockets = [s \in Sockets |-> [mutex |-> NoOwner, hung |-> FALSE]]
    /\ hsmp_sem = [s \in Sockets |-> 1]
    /\ timedOut = [s \in Sockets |-> FALSE]
    /\ \E n \in 1 .. MAX_SOCKETS, f1a \in BOOLEAN :
          init = HwmonLoaded(n, f1a)

NextHwmon ==
    \E t \in ApiCallers :
        \/ HwmonCall(t)
        \/ ApiCheck(t)
        \/ HwmonSend(t)
        \/ ApiReturn(t)

SpecHwmon == InitHwmon /\ [][NextHwmon]_vars

---------------------------------------------------------------------------
(* Properties *)

\* The positions of a call between taking the socket's lock and giving it
\* back: every register access of an exchange is made in one of them
InExchange == {"clear", "args", "sleep", "poll", "resp", "unlock", "up"}

SetIds == { hsmp_set_msgs[i] : i \in 1 .. Len(hsmp_set_msgs) }
GetIds == { hsmp_get_msgs[i] : i \in 1 .. Len(hsmp_get_msgs) }

\* What a call may return besides 0
DefinedErrors ==
    {ETIMEDOUT, ENOMSG, EFAULT, EINVAL, EIO, ENODEV, ETIME, PCIBIOS_ERR}

\* The result a status word stands for in driver fn
StatusResult(fn, st) ==
    CASE st = 1 -> OK
      [] st = 254 -> ENOMSG
      [] st = 255 -> IF fn = "pci" THEN EFAULT ELSE EINVAL
      [] OTHER -> EIO

\* The message of thread t has a field hsmp_send_message refuses
BadFields(t) ==
    \/ th[t].num_args > 8
    \/ th[t].response_sz > 8
    \/ th[t].msg_id = 0
    \/ th[t].msg_id >= HSMP_MSG_ID_MAX

\* C1: on every socket at most one exchange is between taking the lock
\* (before its status-clear write) and giving it back (after its last
\* register access), whatever the callers do, in both drivers.
C1_OneExchangePerSocket ==
    \A t, u \in Threads :
        (t # u /\ th[t].pc \in InExchange /\ th[u].pc \in InExchange)
            => th[t].sock # th[u].sock

\* Two callers on one socket: one polls, the other waits for the lock
C1_Witness ==
    \E t, u \in Threads :
        /\ t # u
        /\ th[t].sock = th[u].sock
        /\ th[t].pc = "poll"
        /\ th[u].pc \in {"lock", "down"}

\* C2: a send_message_pci that starts on a socket after a call on that
\* socket has returned -ETIMEDOUT never takes the mutex and never makes a
\* register access, and what it returns is -ETIMEDOUT.
C2_HungFailsFast ==
    \A t \in Threads :
        (th[t].fn = "pci" /\ th[t].late)
            => /\ ~th[t].touched
               /\ sockets[th[t].sock].mutex # t
               /\ th[t].pc \in {"chk_hung", "done"}
               /\ th[t].pc = "done" => th[t].ret = ETIMEDOUT

C2_Witness ==
    \E t \in Threads :
        /\ th[t].fn = "pci"
        /\ th[t].late
        /\ th[t].pc = "done"
        /\ th[t].ret = ETIMEDOUT

\* C3: a send_message_pci that read not-ready after its deadline returns
\* -ETIMEDOUT with the socket's hung flag set; and no step sets a hung
\* flag back to false.
C3_TimeoutSetsHung ==
    /\ [](\A t \in Threads :
            (th[t].fn = "pci" /\ th[t].sawTimeout /\ th[t].pc = "done")
                => th[t].ret = ETIMEDOUT /\ sockets[th[t].sock].hung)
    /\ [][\A s \in Sockets : sockets[s].hung => sockets'[s].hung]_vars

C3_Witness ==
    \E t \in Threads :
        /\ th[t].fn = "pci"
        /\ th[t].sawTimeout
        /\ th[t].pc = "done"
        /\ sockets[th[t].sock].hung

\* C4: the response words are read in order from word 0, each once and
\* never more than response_sz of them; a call that returns 0 has read
\* all response_sz of them, and every other call returns an error.
C4_WholeResponseOrError ==
    \A t \in Threads :
        /\ Len(th[t].reads) <= th[t].response_sz
        /\ \A i \in 1 .. Len(th[t].reads) : th[t].reads[i] = i - 1
        /\ th[t].pc = "done" =>
              IF th[t].ret = OK
              THEN Len(th[t].reads) = th[t].response_sz
              ELSE th[t].ret \in DefinedErrors

C4_Witness ==
    \E t \in Threads :
        /\ th[t].pc = "done"
        /\ th[t].ret = OK
        /\ th[t].response_sz >= 2
        /\ th[t].reads = <<0, 1>> \/ Len(th[t].reads) > 2

\* C5, as the claim states it: once a status other than not-ready has been
\* read, the call returns what that status word stands for, and no
\* response word is read unless it is 0x01.
C5_StatusAloneDecides ==
    \A t \in Threads :
        (th[t].pc = "done" /\ th[t].mbox_status # HSMP_STATUS_NOT_READY)
            => /\ th[t].ret = StatusResult(th[t].fn, th[t].mbox_status)
               /\ th[t].mbox_status # 1 => th[t].reads = << >>

\* C5, as the code has it: the status word read, all 32 bits of it, gives
\* -ENOMSG for 0xFE, the request-failed error for 0xFF and -EIO for every
\* other value but 0x01, with no response word read; after 0x01 the call
\* returns 0 when all response_sz response words were read and the error
\* of the failed access otherwise.
C5_StatusDecode ==
    \A t \in Threads :
        (th[t].pc = "done" /\ th[t].mbox_status # HSMP_STATUS_NOT_READY)
            => IF th[t].mbox_status = 1
               THEN th[t].ret =
                       IF Len(th[t].reads) = th[t].response_sz
                       THEN OK ELSE PCIBIOS_ERR
               ELSE /\ th[t].ret = StatusResult(th[t].fn, th[t].mbox_status)
                    /\ th[t].reads = << >>

\* A status word whose low byte is 0xFE has given -EIO
C5_Witness ==
    \E t \in Threads :
        /\ th[t].pc = "done"
        /\ th[t].mbox_status = 256 + 254
        /\ th[t].ret = EIO
        /\ th[t].reads = << >>

\* C6, as the claim states it: a refused field gives -EINVAL and a socket
\* without a northbridge gives -ENODEV, each before the semaphore.
C6_RefusedFieldsGiveEinval ==
    \A t \in Threads :
        th[t].invoked =>
            /\ BadFields(t) =>
                  /\ ~th[t].touched
                  /\ th[t].pc = "done" => th[t].ret = EINVAL
            /\ ~HasNb(th[t].sock) =>
                  /\ ~th[t].touched
                  /\ th[t].pc = "done" => th[t].ret = ENODEV

\* C6, as the code has it: hsmp_send_message returns -ENODEV for a socket
\* index without a northbridge whatever the other fields are, and -EINVAL
\* for a refused field when the socket has one; in both cases it has not
\* taken the semaphore and has made no register access.
C6_ValidationOrder ==
    \A t \in Threads :
        th[t].invoked =>
            /\ ~HasNb(th[t].sock) =>
                  /\ ~th[t].touched
                  /\ th[t].pc \in {"validate", "done"}
                  /\ th[t].pc = "done" => th[t].ret = ENODEV
            /\ (HasNb(th[t].sock) /\ BadFields(t)) =>
                  /\ ~th[t].touched
                  /\ th[t].pc \in {"validate", "done"}
                  /\ th[t].pc = "done" => th[t].ret = EINVAL

\* Nine argument words for a socket that has no northbridge: -ENODEV
C6_Witness ==
    \E t \in Threads :
        /\ th[t].invoked
        /\ th[t].pc = "done"
        /\ ~HasNb(th[t].sock)
        /\ th[t].num_args > 8
        /\ th[t].ret = ENODEV

\* C7: hsmp_ioctl on a write-only file calls hsmp_send_message only with
\* an identifier of hsmp_set_msgs, on a read-only file only with one of
\* hsmp_get_msgs; any other identifier ends the ioctl with -EINVAL, with
\* hsmp_send_message not called and no register access made.
C7_IoctlModeGate ==
    \A t \in Threads :
        /\ (th[t].f_mode = "W" /\ th[t].invoked) => th[t].msg_id \in SetIds
        /\ (th[t].f_mode = "R" /\ th[t].invoked) => th[t].msg_id \in GetIds
        /\ ( /\ th[t].fetched
             /\ \/ th[t].f_mode = "W" /\ th[t].msg_id \notin SetIds
                \/ th[t].f_mode = "R" /\ th[t].msg_id \notin GetIds )
              => /\ ~th[t].invoked
                 /\ ~th[t].touched
                 /\ th[t].pc = "done"
                 /\ th[t].ret = EINVAL

\* A telemetry identifier on a write-only file
C7_Witness ==
    \E t \in Threads :
        /\ th[t].f_mode = "W"
        /\ th[t].fetched
        /\ th[t].msg_id = HSMP_GET_SOCKET_POWER
        /\ th[t].pc = "done"
        /\ th[t].ret = EINVAL

\* C8, as the claim states it: every identifier from 1 to HSMP_MSG_ID_MAX - 1
\* is in exactly one of the two lists, and hsmp_ioctl on a read-write file
\* passes every one of them on to hsmp_send_message.
C8_EveryIdClassified ==
    /\ \A id \in 1 .. (HSMP_MSG_ID_MAX - 1) :
          (id \in SetIds) # (id \in GetIds)
    /\ \A t \in Threads :
          ( /\ th[t].fetched
            /\ th[t].f_mode = "RW"
            /\ th[t].msg_id \in 1 .. (HSMP_MSG_ID_MAX - 1) )
              => th[t].invoked

\* C8, as the code has it: every identifier from 1 to HSMP_MSG_ID_MAX - 1
\* but HSMP_RESERVED is in exactly one of the two lists and HSMP_RESERVED is
\* in neither; hsmp_ioctl on a read-write file passes every one of them but
\* HSMP_RESERVED on to hsmp_send_message and ends with -EINVAL for
\* HSMP_RESERVED.
C8_IdsClassifiedButReserved ==
    /\ \A id \in 1 .. (HSMP_MSG_ID_MAX - 1) :
          IF id = HSMP_RESERVED
          THEN id \notin SetIds /\ id \notin GetIds
          ELSE (id \in SetIds) # (id \in GetIds)
    /\ \A t \in Threads :
          ( /\ th[t].fetched
            /\ th[t].f_mode = "RW"
            /\ th[t].msg_id \in 1 .. (HSMP_MSG_ID_MAX - 1) )
              => IF th[t].msg_id = HSMP_RESERVED
                 THEN ~th[t].invoked /\ th[t].ret = EINVAL
                 ELSE th[t].invoked

\* HSMP_RESERVED on a read-write file
C8_Witness ==
    \E t \in Threads :
        /\ th[t].fetched
        /\ th[t].f_mode = "RW"
        /\ th[t].msg_id = HSMP_RESERVED
        /\ th[t].pc = "done"
        /\ th[t].ret = EINVAL

\* C9, as the claim states it: when get_system_topology has returned an
\* error, hsmp_init sends no message, creates no sysfs entries and does
\* not return 0.
C9_TopologyFailureStopsInit ==
    init.topoErr \notin {NONE, OK} =>
        /\ init.attempts = 0
        /\ ~init.sysfs
        /\ init.pc = "returned" => init.ret # OK

\* get_system_topology has returned an error and hsmp_init has sent
\* messages, created the sysfs entries and returned 0
C9_Witness ==
    /\ init.topoErr = ENODEV
    /\ init.attempts = 3
    /\ init.sysfs
    /\ init.pc = "returned"
    /\ init.ret = OK

\* C10, as the claim states it: get_system_topology returns 0 only with 4
\* or 8 host bridges found, and then amd_num_sockets is that count
\* divided by 4, which is 1 or 2.
C10_FourOrEightBridges ==
    init.topoErr = OK =>
        /\ init.num_nbios \in {4, 8}
        /\ init.amd_num_sockets = init.num_nbios \div 4
        /\ init.amd_num_sockets \in {1, 2}

\* get_system_topology has returned 0 with no host bridge found
C10_Witness ==
    /\ init.topoErr = OK
    /\ init.num_nbios = 0
    /\ init.amd_num_sockets = 0

\* The records of the table that hold a bus whose number is b
RecordsOf(b) ==
    { k \in 0 .. (init.num_nbios - 1) :
        init.nbios[k].bus_base <= b /\ b <= init.nbios[k].bus_limit }

\* The records are in ascending order of bus_base and each bus_limit is
\* the next bus_base minus 1, the last one 0xFF
SortedWithLimits ==
    /\ \A k \in 0 .. (init.num_nbios - 2) :
          /\ init.nbios[k].bus_base < init.nbios[k + 1].bus_base
          /\ init.nbios[k].bus_limit = init.nbios[k + 1].bus_base - 1
    /\ \A k \in 0 .. (init.num_nbios - 1) :
          /\ init.nbios[k].bus_base <= init.nbios[k].bus_limit
          /\ k = init.num_nbios - 1 => init.nbios[k].bus_limit = 255

\* C11, as the claim states it: after a successful get_system_topology
\* that found host bridges the records are sorted with their limits and
\* every bus number from 0x00 to 0xFF lies in the range of exactly one
\* record.
C11_RangesPartitionAllBuses ==
    (init.topoErr = OK /\ init.num_nbios > 0) =>
        /\ SortedWithLimits
        /\ \A b \in 0 .. 255 : Cardinality(RecordsOf(b)) = 1

\* C11, as the code has it: after a successful get_system_topology the
\* records are sorted with their limits, the ranges are non-empty and no
\* bus number lies in two of them; every bus number from the lowest
\* bus_base to 0xFF lies in exactly one, and a bus number below the lowest
\* bus_base lies in none.  The bus numbers are counted where
\* get_system_topology has returned and hsmp_init is about to test the
\* sockets; the order of the records is checked in every later state too.
C11_RangesPartitionFromLowestBase ==
    init.topoErr = OK =>
        /\ SortedWithLimits
        /\ init.pc = "test" =>
              \A b \in 0 .. 255 :
                 Cardinality(RecordsOf(b)) =
                    IF init.num_nbios > 0 /\ b >= init.nbios[0].bus_base
                    THEN 1 ELSE 0

\* Four host bridges found in descending order, the lowest on bus 0x10
C11_Witness ==
    /\ init.topoErr = OK
    /\ init.num_nbios = 4
    /\ init.pci_busses = <<208, 144, 80, 16>>
    /\ init.nbios[0].bus_base = 16
    /\ init.nbios[3].bus_limit = 255

\* Every record was written by the register reads of its own group of
\* four, and by no other
OwnGroupStamps ==
    \A k \in 0 .. (init.num_nbios - 1) :
        /\ init.stamps[k] # {}
        /\ \A i \in init.stamps[k] : i \div 4 = k \div 4

RequestFailedErr == IF driver = "pci" THEN EFAULT ELSE EINVAL

\* C13, as the claim states it: when the test exchange succeeded with a
\* response word that is not the argument plus 1, the test ends with an
\* error and that error is the request-failed one.
C13_MismatchIsRequestFailed ==
    init.mismatch =>
        /\ init.pc = "returned"
        /\ init.ret # OK
        /\ init.ret = RequestFailedErr

\* C13, as the code has it: when the test exchange succeeded with a
\* response word that is not the argument plus 1, the test ends at once
\* with -EBADE, which is neither 0 nor the request-failed error; nothing
\* is registered and no sysfs entry is created.
C13_MismatchIsEbade ==
    init.mismatch =>
        /\ init.pc = "returned"
        /\ init.ret = EBADE
        /\ init.ret \notin {OK, RequestFailedErr}
        /\ ~init.sysfs
        /\ ~init.registered

\* The second socket of a two-socket system answered with a wrong word
C13_Witness ==
    /\ init.mismatch
    /\ init.amd_num_sockets = 2
    /\ init.socket_id = 1
    /\ init.ret = EBADE

\* C14, as the claim states it: when the test exchange has failed on some
\* socket, hsmp_test_message does not return 0, so that hsmp_init does not
\* go on to the version reads and creates no sysfs entry.
C14_AnyTestFailureStopsInit ==
    (driver = "pci" /\ init.testFailed # {}) =>
        /\ init.pc \notin {"smu_ver", "proto_ver"}
        /\ ~init.sysfs
        /\ init.pc = "returned" => init.ret # OK

\* The test exchange failed on socket 0 only, of two sockets, without a
\* timeout, and hsmp_init has created the sysfs entries and returned 0
C14_Witness ==
    /\ driver = "pci"
    /\ init.amd_num_sockets = 2
    /\ init.testFailed = {0}
    /\ ~sockets[0].hung
    /\ init.sysfs
    /\ init.pc = "returned"
    /\ init.ret = OK

Holders(s) ==
    { t \in Threads : th[t].pc \in InExchange /\ th[t].sock = s }

\* C16: a call that took the lock of its socket has given it back exactly
\* once when it returns, whatever way it ends; the mutex of a socket is
\* owned by a call inside its exchange or by none, and the semaphore count
\* of a socket is 1 with no call inside an exchange and 0 with one.
C16_LockReleasedOnce ==
    /\ \A t \in Threads :
          /\ th[t].releases <= 1
          /\ th[t].pc \in {"done", "copyout"} =>
                th[t].releases = IF th[t].touched THEN 1 ELSE 0
          /\ th[t].pc \in InExchange => th[t].releases = 0
    /\ \A s \in Sockets :
          /\ hsmp_sem[s] \in {0, 1}
          /\ driver = "plat" => hsmp_sem[s] = 1 - Cardinality(Holders(s))
          /\ driver = "pci" =>
                IF Holders(s) = {} THEN sockets[s].mutex = NoOwner
                ELSE Holders(s) = {sockets[s].mutex}

\* A call ended by a failed register access has given the mutex back
C16_Witness ==
    \E t \in Threads :
        /\ th[t].fn = "pci"
        /\ th[t].pc = "done"
        /\ th[t].ret = PCIBIOS_ERR
        /\ th[t].touched
        /\ th[t].releases = 1
        /\ sockets[th[t].sock].mutex = NoOwner

\* The steps thread t takes by itself once it waits for a lock
WaitEnds(t) == PciLock(t) \/ PlatDown(t) \/ PlatDownTimeout(t)

HolderSteps(t) == PciSteps(t) \/ PlatSteps(t)

\* C18: exchanges on different sockets do not interfere.  A call waiting for
\* the lock of its socket can take it as soon as that lock is free, whatever
\* the state of the other socket, and a call inside its exchange can always
\* take its next step; a step changes the lock, the hung flag or the
\* semaphore of a socket only if it is the step of one call on that socket
\* and it changes the local state of no other call; and a call goes on from
\* the hung check exactly if the flag of its own socket is clear, so a
\* timeout that marks socket B hung leaves A's flag and A's exchanges as they
\* were.
C18_SocketsDoNotInterfere ==
    /\ [](\A t \in Threads :
            /\ (th[t].pc = "lock" /\ sockets[th[t].sock].mutex = NoOwner)
                  => ENABLED PciLock(t)
            /\ (th[t].pc = "down" /\ hsmp_sem[th[t].sock] > 0)
                  => ENABLED PlatDown(t)
            /\ th[t].pc \in InExchange => ENABLED HolderSteps(t))
    /\ [][\A s \in Sockets :
            (sockets'[s] # sockets[s] \/ hsmp_sem'[s] # hsmp_sem[s])
               => \E t \in Threads :
                     /\ th[t].sock = s
                     /\ th'[t] # th[t]
                     /\ \A u \in Threads \ {t} : th'[u] = th[u]]_vars
    /\ [][\A t \in Threads :
            (At(t, "pci", "chk_hung") /\ th'[t] # th[t])
               => (th'[t].pc = "lock" <=> ~sockets[th[t].sock].hung)]_vars

\* A call on one socket has timed out and marked it hung while a call on the
\* other socket, whose flag is clear, polls
C18_Witness ==
    \E t, u \in Threads :
        /\ th[t].sock # th[u].sock
        /\ th[u].pc = "done"
        /\ th[u].ret = ETIMEDOUT
        /\ sockets[th[u].sock].hung
        /\ th[t].pc = "poll"
        /\ sockets[th[t].sock].mutex = t
        /\ ~sockets[th[t].sock].hung

\* The accesses to register reg that the call of thread t has issued
AccessesTo(t, op, reg) ==
    { i \in 1 .. Len(th[t].log) : th[t].log[i] = <<op, reg>> }

\* C19: one call writes the message-id register at most once; once the
\* exchange has failed, by a timeout, an error status or a failed register
\* access, the call issues no further access and returns that error.
C19_TriggerWrittenOnce ==
    /\ [](\A t \in Threads :
            Cardinality(AccessesTo(t, "wr", SMN_HSMP_MSG_ID)) <= 1)
    /\ [][\A t \in Threads :
            (th[t].pc \in InExchange /\ th[t].err # OK)
               => /\ th'[t].log = th[t].log
                  /\ th'[t].err = th[t].err
                  /\ th'[t].pc = "done" => th'[t].ret = th[t].err]_vars

\* Two calls have returned, one after a timeout and one after a failed
\* register access, each having written the trigger once
C19_Witness ==
    \E t, u \in Threads :
        /\ th[t].pc = "done" /\ th[u].pc = "done"
        /\ th[t].ret = ETIMEDOUT /\ th[t].sawTimeout
        /\ th[u].ret = PCIBIOS_ERR
        /\ Cardinality(AccessesTo(t, "wr", SMN_HSMP_MSG_ID)) = 1
        /\ Cardinality(AccessesTo(u, "wr", SMN_HSMP_MSG_ID)) = 1

\* The accesses of a complete exchange of thread t, in order
ExchangeAccesses(t) ==
    <<  <<"wr", SMN_HSMP_MSG_RESP>>  >>
    \o [k \in 1 .. th[t].num_args |-> <<"wr", SMN_HSMP_MSG_DATA + 4 * (k - 1)>>]
    \o << <<"wr", SMN_HSMP_MSG_ID>>, <<"rd", SMN_HSMP_MSG_RESP>> >>
    \o [k \in 1 .. th[t].response_sz |-> <<"rd", SMN_HSMP_MSG_DATA + 4 * (k - 1)>>]

IsPrefix(a, b) ==
    /\ Len(a) <= Len(b)
    /\ \A i \in 1 .. Len(a) : a[i] = b[i]

\* The order of the accesses of every call: a prefix of the order of a
\* complete exchange, the whole of it when the call succeeds, and no response
\* word read unless the last status read returned OK
AccessOrder ==
    \A t \in Threads :
        /\ IsPrefix(th[t].log, ExchangeAccesses(t))
        /\ (th[t].pc = "done" /\ th[t].touched /\ th[t].err = OK)
              => th[t].log = ExchangeAccesses(t)
        /\ Len(th[t].log) > th[t].num_args + 3
              => th[t].mbox_status = HSMP_STATUS_OK

\* An exchange whose trigger write succeeded has read the status by the time
\* it ends
StatusReadAfterTrigger ==
    \A t \in Threads :
        ( /\ th[t].pc \in {"unlock", "up", "set_hung", "done"}
          /\ AccessesTo(t, "wr", SMN_HSMP_MSG_ID) # {}
          /\ th[t].err # PCIBIOS_ERR )
           => AccessesTo(t, "rd", SMN_HSMP_MSG_RESP) # {}

\* C20: within one exchange the accesses are, in this order, one write of
\* not-ready to the status register, the num_args argument writes to data
\* offset + 4*k in increasing k, one write of the message id, one or more
\* status reads and, only after a status read returned OK, the response_sz
\* reads of data offset + 4*k in increasing k.
C20_AccessOrderWithStatusRead ==
    AccessOrder /\ StatusReadAfterTrigger

\* __hsmp_send_message has written the trigger and returns -ETIMEDOUT
\* without having read the status once
C20_Witness ==
    \E t \in Threads :
        /\ th[t].fn = "plat"
        /\ th[t].pc = "done"
        /\ th[t].ret = ETIMEDOUT
        /\ AccessesTo(t, "wr", SMN_HSMP_MSG_ID) # {}
        /\ AccessesTo(t, "rd", SMN_HSMP_MSG_RESP) = {}

\* The last access the call of thread t has issued
LastAccess(t) == th[t].log[Len(th[t].log)]

\* C21: every access to a mailbox register is a write of its address to the
\* index register followed by the access to the data register, and a failed
\* index write suppresses the data access; once an access of the exchange
\* has failed the call stands past every access, issues none again, and
\* returns the code of the failed access unchanged.
C21_IoFailureEndsExchange ==
    /\ [](\A t \in Threads :
            /\ th[t].phys # << >> =>
                  /\ Len(th[t].phys) <= 2
                  /\ th[t].phys[1] = <<"wr", HSMP_INDEX_REG, LastAccess(t)[2]>>
                  /\ Len(th[t].phys) = 2 =>
                        th[t].phys[2] =
                           <<LastAccess(t)[1], HSMP_DATA_REG, LastAccess(t)[2]>>
                  /\ Len(th[t].phys) = 1 <=> th[t].ioFail = "index_fail"
            /\ th[t].ioFail # NONE =>
                  /\ th[t].err = PCIBIOS_ERR
                  /\ th[t].pc \in {"unlock", "set_hung", "up", "done"}
                  /\ th[t].pc = "done" => th[t].ret = PCIBIOS_ERR)
    /\ [][\A t \in Threads :
            (th[t].ioFail # NONE /\ th[t].pc # "done")
               => /\ th'[t].log = th[t].log
                  /\ th'[t].phys = th[t].phys
                  /\ th'[t].err = th[t].err]_vars

\* One call has returned after the index write of a status read failed,
\* the other after the data write of an argument failed
C21_Witness ==
    \E t, u \in Threads :
        /\ th[t].pc = "done" /\ th[u].pc = "done"
        /\ th[t].ioFail = "index_fail"
        /\ LastAccess(t) = <<"rd", SMN_HSMP_MSG_RESP>>
        /\ th[t].phys = << <<"wr", HSMP_INDEX_REG, SMN_HSMP_MSG_RESP>> >>
        /\ th[t].ret = PCIBIOS_ERR
        /\ th[u].ioFail = "data_fail"
        /\ LastAccess(u) = <<"wr", SMN_HSMP_MSG_DATA>>
        /\ Len(th[u].phys) = 2
        /\ th[u].ret = PCIBIOS_ERR

\* The calls that need a newer protocol version than the firmware speaks
NeedsNewerVersion(t) ==
    \/ th[t].api = "hsmp_set_nbio_pstate" /\ amd_hsmp_proto_ver < 2
    \/ th[t].api \in DdrFns /\ amd_hsmp_proto_ver < 3

\* C22: hsmp_set_nbio_pstate below protocol version 2 and the DDR
\* bandwidth getters below protocol version 3 return -EOPNOTSUPP whatever
\* their arguments are, and hsmp_send_message is never called
C22_OldVersionNotSupported ==
    \A t \in ApiCallers :
        NeedsNewerVersion(t) =>
            /\ th[t].sent = << >>
            /\ th[t].pc \notin {"api_send", "oops"}
            /\ th[t].pc = "api_done" => th[t].ret = EOPNOTSUPP

\* C22 as the code has it: the same, but a DDR bandwidth getter given no
\* pointer other than NULL returns -EINVAL, the test of the pointers being
\* made before the test of the version; no message is sent in either case
C22_OldVersionNotSupportedOrNull ==
    \A t \in ApiCallers :
        NeedsNewerVersion(t) =>
            /\ th[t].sent = << >>
            /\ th[t].pc \notin {"api_send", "oops"}
            /\ th[t].pc = "api_done" =>
                  th[t].ret = IF th[t].api = "get_ddr_bandwidth_data"
                                 /\ th[t].a.nul = {1, 2, 3}
                              THEN EINVAL ELSE EOPNOTSUPP

\* C22 witness: hsmp_set_nbio_pstate has returned -EOPNOTSUPP for a bus of
\* no tile and a P-state that does not exist, and a DDR bandwidth getter
\* has for a pointer that is not NULL
C22_Witness ==
    \E t \in ApiCallers :
        /\ th[t].pc = "api_done"
        /\ th[t].ret = EOPNOTSUPP
        /\ NeedsNewerVersion(t)
        /\ \/ /\ th[t].api = "hsmp_set_nbio_pstate"
              /\ bus_to_nbio(init.nbios, th[t].a.bus_num) = -1
              /\ th[t].a.pstate = 4
           \/ /\ th[t].api = "get_ddr_bandwidth_data"
              /\ th[t].a.nul = {2, 3}

\* A socket-scoped function called with pointers that are not NULL and a
\* socket_id outside 0 .. amd_num_sockets - 1
BadSocketCall(t) ==
    /\ th[t].api \in SocketFns
    /\ th[t].a.nul = {}
    /\ th[t].a.socket_id \notin 0 .. (amd_num_sockets - 1)

\* C23: a socket-scoped function called with a socket_id that is negative,
\* equal to amd_num_sockets or larger returns -ENODEV and sends no message
C23_BadSocketIsEnodev ==
    \A t \in ApiCallers :
        BadSocketCall(t) =>
            /\ th[t].sent = << >>
            /\ th[t].pc \notin {"api_send", "oops"}
            /\ th[t].pc = "api_done" => th[t].ret = ENODEV

\* C23 witness: hsmp_get_power called with socket_id -1 has handed its
\* message to hsmp_send_message, which indexed sockets[-1]
C23_Witness ==
    \E t \in ApiCallers :
        /\ th[t].api = "hsmp_get_power"
        /\ th[t].a.socket_id = -1
        /\ th[t].pc \in {"api_done", "oops"}
        /\ Len(th[t].sent) = 1
        /\ th[t].sent[1].sock = -1
        /\ th[t].ret # ENODEV

\* get_system_topology has returned 0
TopologyFound == init.pc = "test" /\ init.topoErr = OK

\* The positions of pci_busses that hold bus b
LoggedAt(b) == { k \in 1 .. init.num_busses : init.pci_busses[k] = b }

\* C24: after a successful get_system_topology the bus of every enumerated
\* device that is neither a host bridge nor an SOC virtual device is in
\* pci_busses, and no bus is there twice
C24_OtherBusesLogged ==
    TopologyFound =>
        /\ \A b \in init.otherSeen : Cardinality(LoggedAt(b)) = 1
        /\ \A b \in 0 .. (U8 - 1) : Cardinality(LoggedAt(b)) <= 1

\* C24 witness: discovery succeeded after a device that is no SOC virtual
\* device was found on a bus no host bridge is on, and pci_busses holds
\* the buses of the host bridges only
C24_Witness ==
    /\ TopologyFound
    /\ \E b \in init.otherSeen : LoggedAt(b) = {}
    /\ init.num_busses = init.num_nbios
    /\ init.num_nbios = 4

\* The (socket_id, id) pair of tile record k
PairOf(k) == <<init.nbios[k].socket_id, init.nbios[k].id>>

\* C25: after a successful get_system_topology every discovered tile
\* record has been stamped by the loop over the firmware registers, the
\* pairs (socket_id, id) of distinct records are distinct, and they are
\* exactly the pairs of {0 .. amd_num_sockets - 1} x {0 .. 3}, whatever
\* base buses the registers returned
C25_StampsArePermutation ==
    TopologyFound =>
        LET recs == 0 .. (init.num_nbios - 1)
        IN /\ \A k \in recs : init.stamps[k] # {}
           /\ \A k \in recs, m \in recs : k # m => PairOf(k) # PairOf(m)
           /\ { PairOf(k) : k \in recs }
                = (0 .. (init.amd_num_sockets - 1)) \X (0 .. 3)

\* C25 witness: discovery succeeded on two sockets although one register
\* named a record that another register names too: that record was stamped
\* twice, one record was never stamped, and two records carry the same
\* pair
C25_Witness ==
    /\ TopologyFound
    /\ init.num_nbios = 8
    /\ \E k \in 0 .. 7 : Cardinality(init.stamps[k]) = 2
    /\ \E k \in 0 .. 7 : init.stamps[k] = {}
    /\ \E k \in 0 .. 7, m \in 0 .. 7 : k # m /\ PairOf(k) = PairOf(m)

\* Thread t makes a register access of send_message_pci in this step
PciAccessStep(t) ==
    /\ th[t].fn = "pci"
    /\ th'[t] # th[t]
    /\ \/ th[t].pc \in {"clear", "args", "poll"}
       \/ th[t].pc = "resp" /\ PciRespMore(t)

\* C26: whatever the interleaving of the callers of send_message_pci, no
\* register access is made on a socket whose hung flag is already true
C26_NoAccessWhenHung ==
    [][\A t \in Threads :
          PciAccessStep(t) => ~sockets[th[t].sock].hung]_vars

\* C26 witness: one caller has returned -ETIMEDOUT and set the socket's
\* hung flag while another, which had passed the test of the flag before,
\* has taken the lock and is about to write the status register
C26_Witness ==
    \E t \in Threads, u \in Threads :
        /\ t # u
        /\ th[u].fn = "pci" /\ th[u].pc = "done" /\ th[u].ret = ETIMEDOUT
        /\ th[u].sawTimeout
        /\ th[t].fn = "pci" /\ th[t].pc = "clear" /\ th[t].log = << >>
        /\ th[t].sock = th[u].sock
        /\ sockets[th[t].sock].hung
        /\ sockets[th[t].sock].mutex = t

\* C27: __hsmp_send_message of part_000 reads the status once more after
\* its final sleep: when it returns -ETIMEDOUT, the trigger write has been
\* followed by a status read, and the call has not slept since its last
\* status read
C27_StatusReadAfterFinalSleep ==
    \A t \in Threads :
        ( /\ th[t].fn = "plat"
          /\ th[t].pc = "up"
          /\ th[t].err = ETIMEDOUT )
           => /\ AccessesTo(t, "rd", SMN_HSMP_MSG_RESP) # {}
              /\ ~th[t].slept

\* C27 witness: __hsmp_send_message has read not-ready, slept past the
\* deadline and left the loop with -ETIMEDOUT without another status read
C27_Witness ==
    \E t \in Threads :
        /\ th[t].fn = "plat"
        /\ th[t].pc = "up"
        /\ th[t].err = ETIMEDOUT
        /\ th[t].sawTimeout
        /\ th[t].slept
        /\ th[t].mbox_status = HSMP_STATUS_NOT_READY
        /\ AccessesTo(t, "rd", SMN_HSMP_MSG_RESP) # {}

\* The steps of the poll loop of send_message_pci: the deadline, once
\* passed, stays passed, and a status other than not-ready that is read
\* after the deadline gives the result of that status
PollLoopStep(t) ==
    /\ ( /\ th[t].pc \in {"sleep", "poll"}
         /\ th'[t].pc \in {"sleep", "poll"}
         /\ th[t].expired ) => th'[t].expired
    /\ ( /\ th[t].pc = "poll"
         /\ th[t].expired
         /\ th'[t].pc \in {"unlock", "resp"}
         /\ th'[t].ioFail = NONE
         /\ th'[t].mbox_status # HSMP_STATUS_NOT_READY )
           => /\ th'[t].err = PciStatusToErr(th'[t].mbox_status)
              /\ th'[t].err # ETIMEDOUT

\* C28: in send_message_pci the deadline is fixed once, after the write of
\* the message id; a sleep precedes every status read, the short one
\* before each of the first SHORT_POLLS reads and the long one before the
\* later ones; the deadline is tested only after a read of not-ready, so
\* a timeout follows a status read made after the last sleep, and a
\* terminal status read after the deadline is accepted
C28_PollCadenceAndDeadline ==
    /\ [](\A t \in Threads :
            th[t].fn = "pci" =>
              /\ th[t].pc = "poll" =>
                    /\ th[t].slept
                    /\ th[t].nap = IF th[t].polls < SHORT_POLLS
                                   THEN "short" ELSE "long"
              /\ ( th[t].pc \in {"unlock", "set_hung", "done"}
                   /\ th[t].sawTimeout ) =>
                    /\ AccessesTo(t, "rd", SMN_HSMP_MSG_RESP) # {}
                    /\ ~th[t].slept
                    /\ th[t].mbox_status = HSMP_STATUS_NOT_READY)
    /\ [][\A t \in Threads : th[t].fn = "pci" => PollLoopStep(t)]_vars

\* C28 witness: a caller of send_message_pci has read not-ready
\* SHORT_POLLS times, has taken the long sleep, and its deadline has passed
\* before its next status read
C28_Witness ==
    \E t \in Threads :
        /\ th[t].fn = "pci"
        /\ th[t].pc = "poll"
        /\ th[t].polls = SHORT_POLLS
        /\ th[t].nap = "long"
        /\ th[t].expired

\* The ends of an exchange of send_message_pci other than the timeout
NoTimeoutEnds == {OK, PCIBIOS_ERR, ENOMSG, EFAULT, EIO}

\* C29: an exchange of send_message_pci that ends with a register I/O
\* error, an invalid-message, request-failed or unknown status, or success
\* leaves the hung flags as they are; a hung flag goes from false to true
\* only when a call on that socket ends because its deadline passed with
\* the status still not-ready, and never goes back to false
C29_HungOnlyByPollTimeout ==
    [][ /\ \A t \in Threads :
              ( /\ th[t].fn = "pci"
                /\ th[t].pc = "set_hung"
                /\ th'[t].pc = "done"
                /\ th[t].err \in NoTimeoutEnds ) => sockets' = sockets
        /\ \A s \in Sockets :
              /\ sockets[s].hung => sockets'[s].hung
              /\ ( ~sockets[s].hung /\ sockets'[s].hung ) =>
                    \E t \in Threads :
                        /\ th[t].fn = "pci"
                        /\ th[t].sock = s
                        /\ th[t].pc = "set_hung"
                        /\ th'[t].pc = "done"
                        /\ th[t].err = ETIMEDOUT
                        /\ th[t].sawTimeout
                        /\ th[t].mbox_status = HSMP_STATUS_NOT_READY ]_vars

\* C29 witness: one call has ended with a request-failed status and its
\* socket is not hung, while a call on the other socket has run into its
\* deadline and that socket is hung
C29_Witness ==
    \E t \in Threads, u \in Threads :
        /\ th[t].fn = "pci" /\ th[t].pc = "done" /\ th[t].ret = EFAULT
        /\ ~sockets[th[t].sock].hung
        /\ th[u].fn = "pci" /\ th[u].pc = "done" /\ th[u].ret = ETIMEDOUT
        /\ th[u].sawTimeout
        /\ th[u].sock # th[t].sock
        /\ sockets[th[u].sock].hung

\* C30: a getter that returns an error has left what its output pointers
\* point to as the caller had it, and a getter that returns 0 has written
\* a value of the response through each output pointer that is not NULL
C30_OutputsOnlyOnSuccess ==
    \A t \in ApiCallers :
        ( th[t].fn = "api" /\ th[t].pc = "api_done" ) =>
            \A k \in 1 .. NumOutputs(th[t].api) :
                th[t].out[k] = IF k \in th[t].a.nul THEN NULLPTR
                               ELSE IF th[t].ret = OK THEN RESP
                               ELSE CALLER

\* C30 witness: hsmp_ddr_max_bandwidth, that is get_ddr_bandwidth_data
\* with max_bw alone not NULL, has sent its message, the exchange has
\* failed, and *max_bw holds a value computed from the uninitialised
\* result
C30_Witness ==
    \E t \in ApiCallers :
        /\ th[t].fn = "api" /\ th[t].pc = "api_done"
        /\ th[t].api = "get_ddr_bandwidth_data"
        /\ th[t].a.nul = {2, 3}
        /\ Len(th[t].sent) = 1
        /\ th[t].ret = EIO
        /\ th[t].out[1] = GARBAGE

\* The tile records whose range [bus_base, bus_limit] holds bus b
TilesOf(b) ==
    { k \in 0 .. (MAX_NBIOS - 1) :
        init.nbios[k].bus_base <= b /\ b <= init.nbios[k].bus_limit }

\* (dpm_max << 8) | dpm_min for the three P-states
DpmWord(pstate) ==
    CASE pstate = -1 -> 2 * 256 + 0
      [] pstate = 0 -> 2 * 256 + 2
      [] pstate = 1 -> 0

Returned(t, f) ==
    th[t].fn = "api" /\ th[t].api = f /\ th[t].pc = "api_done"

\* The results of the turns of a loop over the sockets and what the loop
\* returns: 0 when every turn succeeded, otherwise the error of the last
\* turn that failed
LoopReturns(results, ret) ==
    /\ (ret = OK) <=> (\A i \in DOMAIN results : results[i] = OK)
    /\ ret # OK =>
          \E i \in DOMAIN results :
              /\ results[i] = ret
              /\ \A j \in DOMAIN results : j > i => results[j] = OK

\* (width_min << 8) | width_max of a valid xGMI P-state
XgmiWord(pstate) ==
    CASE pstate = -1 -> (IF amd_family = 25 THEN 0 ELSE 256) + 2
      [] pstate = 0 -> 2 * 256 + 2
      [] pstate = 1 -> 256 + 1
      [] pstate = 2 -> 0

\* C32: hsmp_set_xgmi_pstate returns -ENODEV without sending on fewer than
\* 2 sockets, -EINVAL without sending for a P-state outside -1..2 and for
\* P-state 2 on a family other than 19h; otherwise it sends
\* HSMP_SET_XGMI_LINK_WIDTH with the one argument
\* (width_min << 8) | width_max to every socket in index order, whatever
\* the earlier sockets answered, and returns 0 only if every socket
\* succeeded, otherwise the error of the last socket that failed
C32_XgmiPstateAllSockets ==
    \A t \in ApiCallers :
        Returned(t, "hsmp_set_xgmi_pstate") =>
            IF amd_num_sockets < 2
            THEN th[t].ret = ENODEV /\ th[t].sent = << >>
            ELSE IF \/ th[t].a.pstate \notin {-1, 0, 1, 2}
                    \/ (th[t].a.pstate = 2 /\ amd_family # 25)
            THEN th[t].ret = EINVAL /\ th[t].sent = << >>
            ELSE /\ th[t].sent =
                       [i \in 1 .. amd_num_sockets |->
                           [sock |-> i - 1,
                            msg_id |-> HSMP_SET_XGMI_LINK_WIDTH,
                            num_args |-> 1, response_sz |-> 0,
                            arg |-> XgmiWord(th[t].a.pstate)]]
                 /\ Len(th[t].results) = amd_num_sockets
                 /\ LoopReturns(th[t].results, th[t].ret)

\* C32 witness: automatic link width has been requested on two sockets,
\* socket 0 has failed, socket 1 has been sent the message all the same and
\* has succeeded, and the error of socket 0 is returned
C32_Witness ==
    \E t \in ApiCallers :
        /\ Returned(t, "hsmp_set_xgmi_pstate")
        /\ th[t].a.pstate = -1
        /\ th[t].results = <<EIO, OK>>
        /\ Len(th[t].sent) = 2
        /\ th[t].sent[2].sock = 1
        /\ th[t].sent[2].arg = 2
        /\ th[t].ret = EIO

\* The call of the one caller is past its tests
Sent(t, f) ==
    th[t].fn = "api" /\ th[t].api = f /\ th[t].pc \in {"api_done", "oops"}

\* C33 as stated: hsmp_set_df_pstate returns -EINVAL and sends nothing for
\* every P-state outside -1..3, and for every P-state of -1..3 it sends
\* exactly one message to the given socket, HSMP_AUTO_DF_PSTATE without
\* arguments for -1 and HSMP_SET_DF_PSTATE with the P-state as its one
\* argument otherwise, and returns the result of the exchange
C33_DfPstateMessage ==
    \A t \in ApiCallers :
        Sent(t, "hsmp_set_df_pstate") =>
            IF th[t].a.pstate < -1 \/ th[t].a.pstate > 3
            THEN th[t].ret = EINVAL /\ th[t].sent = << >>
            ELSE /\ th[t].sent =
                       << [sock |-> th[t].a.socket_id,
                           msg_id |-> IF th[t].a.pstate = -1
                                      THEN HSMP_AUTO_DF_PSTATE
                                      ELSE HSMP_SET_DF_PSTATE,
                           num_args |-> IF th[t].a.pstate = -1 THEN 0 ELSE 1,
                           response_sz |-> 0,
                           arg |-> IF th[t].a.pstate = -1 THEN 0
                                   ELSE th[t].a.pstate] >>
                 /\ th[t].ret = th[t].results[1]

\* C33, amended: the socket is tested first.  For a socket index of
\* amd_num_sockets or more hsmp_set_df_pstate returns -ENODEV and sends
\* nothing, whatever the P-state; for every lower index the statement above
\* holds
C33_DfPstateMessageOnSocket ==
    \A t \in ApiCallers :
        Sent(t, "hsmp_set_df_pstate") =>
            IF th[t].a.socket_id >= amd_num_sockets
            THEN th[t].ret = ENODEV /\ th[t].sent = << >>
            ELSE IF th[t].a.pstate < -1 \/ th[t].a.pstate > 3
            THEN th[t].ret = EINVAL /\ th[t].sent = << >>
            ELSE /\ th[t].sent =
                       << [sock |-> th[t].a.socket_id,
                           msg_id |-> IF th[t].a.pstate = -1
                                      THEN HSMP_AUTO_DF_PSTATE
                                      ELSE HSMP_SET_DF_PSTATE,
                           num_args |-> IF th[t].a.pstate = -1 THEN 0 ELSE 1,
                           response_sz |-> 0,
                           arg |-> IF th[t].a.pstate = -1 THEN 0
                                   ELSE th[t].a.pstate] >>
                 /\ th[t].ret = th[t].results[1]

\* C33 witness: automatic selection has been requested on socket 1, one
\* HSMP_AUTO_DF_PSTATE message without arguments has gone to socket 1, and
\* the error of the exchange is returned
C33_Witness ==
    \E t \in ApiCallers :
        /\ Returned(t, "hsmp_set_df_pstate")
        /\ th[t].a.socket_id = 1
        /\ th[t].a.pstate = -1
        /\ Len(th[t].sent) = 1
        /\ th[t].sent[1].msg_id = HSMP_AUTO_DF_PSTATE
        /\ th[t].sent[1].num_args = 0
        /\ th[t].results = <<ENOMSG>>
        /\ th[t].ret = ENOMSG

\* C34: hsmp_set_boost_limit_system sends HSMP_SET_BOOST_LIMIT_SOCKET with
\* the limit to every socket 0 .. amd_num_sockets - 1 exactly once, in index
\* order, whatever the earlier sockets answered, and returns 0 if and only
\* if the exchange of every socket succeeded
C34_BoostLimitSystemAllSockets ==
    \A t \in ApiCallers :
        Returned(t, "hsmp_set_boost_limit_system") =>
            /\ th[t].sent =
                  [i \in 1 .. amd_num_sockets |->
                      [sock |-> i - 1,
                       msg_id |-> HSMP_SET_BOOST_LIMIT_SOCKET,
                       num_args |-> 1, response_sz |-> 0,
                       arg |-> th[t].a.val]]
            /\ Len(th[t].results) = amd_num_sockets
            /\ (th[t].ret = OK) <=>
                  (\A i \in 1 .. amd_num_sockets : th[t].results[i] = OK)

\* C34 witness: on two sockets the exchange of socket 0 has timed out,
\* socket 1 has been sent the limit all the same and has succeeded, and the
\* function returns the error
C34_Witness ==
    \E t \in ApiCallers :
        /\ Returned(t, "hsmp_set_boost_limit_system")
        /\ th[t].results = <<ETIMEDOUT, OK>>
        /\ Len(th[t].sent) = 2
        /\ th[t].sent[2].sock = 1
        /\ th[t].ret = ETIMEDOUT

\* C35: the argument word of hsmp_set_boost_limit_cpu holds the APIC id of
\* the CPU in bits 31..16 and the low 16 bits of the limit in bits 15..0,
\* for every present CPU and every 32-bit limit
C35_BoostLimitWordKeepsApicId ==
    \A t \in ApiCallers :
        ( Sent(t, "hsmp_set_boost_limit_cpu") /\ cpu_present(th[t].a.cpu) )
            => /\ Len(th[t].sent) = 1
               /\ th[t].sent[1].arg \div U16 = apicid(th[t].a.cpu)
               /\ th[t].sent[1].arg % U16 = th[t].a.val % U16

\* C35 witness: the limit 65536 has been written for CPU 0, whose APIC id
\* is 4, and the message names APIC id 5
C35_Witness ==
    \E t \in ApiCallers :
        /\ Returned(t, "hsmp_set_boost_limit_cpu")
        /\ th[t].a.cpu = 0
        /\ th[t].a.val = U16
        /\ Len(th[t].sent) = 1
        /\ th[t].sent[1].arg = 5 * U16
        /\ th[t].ret = OK

\* C36: the sysfs entries exist only if get_system_topology has succeeded,
\* the test message has succeeded on every socket and the firmware has
\* reported a protocol version of 1..4; with any other version hsmp_init
\* returns -ENODEV and creates no entry
C36_SysfsOnlyAfterAllChecks ==
    /\ init.sysfs =>
          /\ init.topoErr = OK
          /\ init.testFailed = {}
          /\ init.proto_ver \in 1 .. 4
    /\ ( driver = "pci" /\ init.pc = "returned"
         /\ init.proto_ver \notin 0 .. 4 )
          => ( init.ret = ENODEV /\ ~init.sysfs )

\* C36 witness: on two sockets the test message of socket 0 has failed with
\* -EIO and that of socket 1 has succeeded, both versions have been read,
\* and the sysfs entries exist
C36_Witness ==
    /\ driver = "pci"
    /\ init.topoErr = OK
    /\ init.amd_num_sockets = 2
    /\ init.testFailed = {0}
    /\ ~sockets[0].hung
    /\ init.proto_ver = 2
    /\ init.sysfs
    /\ init.pc = "returned"
    /\ init.ret = OK

\* The steps of a probe of plat.c that is not the metric-table read
MailboxSteps == SelectSeq(init.steps, LAMBDA e : e[1] # "tbl")

\* The steps of the sockets 0 .. n - 1 in index order, each socket's
\* offsets and semaphore first, its test message next, its version read
\* last, all of them successful
StepsOfSockets(n) ==
    [k \in 1 .. 3 * n |->
        LET i == (k - 1) \div 3
        IN CASE (k - 1) % 3 = 0 -> <<"mbinfo", i, OK>>
             [] (k - 1) % 3 = 1 -> <<"test", i, DEADBEEF, OK>>
             [] (k - 1) % 3 = 2 -> <<"proto", i, OK>>]

\* The mailbox fields init_platform_device gives a socket
MailboxOf(i) ==
    [sock_ind |-> i, base_addr |-> SMN_HSMP_BASE,
     msg_id_off |-> IF init.f1a THEN SMN_HSMP_MSG_ID_F1A_M0H
                    ELSE SMN_HSMP_MSG_ID - SMN_HSMP_BASE,
     msg_resp_off |-> SMN_HSMP_MSG_RESP - SMN_HSMP_BASE,
     msg_arg_off |-> SMN_HSMP_MSG_DATA - SMN_HSMP_BASE,
     hsmp_sem |-> 1]

\* C37: in plat.c the misc device is registered only after every socket
\* 0 .. num_sockets - 1 has, in index order, been given its mailbox offsets
\* and semaphore, passed the 0xDEADBEEF test message and had its protocol
\* version read; the first failure of the test or of the version read ends
\* the probe with that error and leaves the later sockets as allocated,
\* while a failure of the metric-table read lets the loop go on; every
\* initialised socket has the message-id offset of the hardware generation
\* and the fixed response and argument offsets
C37_RegisterAfterEverySocket ==
    driver = "platdev" =>
        /\ init.registered =>
              /\ MailboxSteps = StepsOfSockets(init.amd_num_sockets)
              /\ \A i \in 0 .. (init.amd_num_sockets - 1) :
                    init.sock[i + 1] = MailboxOf(i)
        /\ \A k \in DOMAIN init.steps :
              LET e == init.steps[k]
              IN /\ ( e[1] \in {"test", "proto"} /\ e[Len(e)] # OK ) =>
                       /\ k = Len(init.steps)
                       /\ init.pc = "returned" /\ init.ret = e[Len(e)]
                       /\ ~init.registered
                       /\ \A j \in (e[2] + 1) .. (init.amd_num_sockets - 1) :
                             init.sock[j + 1] = SockZero
                 /\ e[1] = "tbl" => init.socket_id > e[2]
                 /\ e[1] = "mbinfo" => init.sock[e[2] + 1] = MailboxOf(e[2])

\* C37 witness: on two sockets of the newer generation both sockets have
\* been initialised and tested, the metric-table read of socket 0 has
\* failed, and the misc device is registered
C37_Witness ==
    /\ driver = "platdev"
    /\ init.amd_num_sockets = 2
    /\ init.f1a
    /\ init.registered
    /\ <<"tbl", 0, EIO>> \in { init.steps[k] : k \in DOMAIN init.steps }
    /\ init.sock[2].msg_id_off = SMN_HSMP_MSG_ID_F1A_M0H

\* The call of t is an ioctl
IsIoctl(t) == th[t].fn = "plat" /\ th[t].f_mode # NONE

\* The message id of the call is in the list
InList(t, list) == search_msg_list(th[t].msg_id, list) = OK

\* C38 as stated: hsmp_ioctl writes to the caller's buffer only when the
\* file is readable, the message is a get message and the exchange has
\* succeeded, and then the ioctl returns 0; for a set message, for a
\* write-only caller and on every error return the buffer is as the caller
\* left it
C38_CopyBackOnlyOnGetSuccess ==
    \A t \in Threads :
        IsIoctl(t) =>
            /\ ( th[t].copied \/ th[t].partial ) =>
                  /\ th[t].f_mode \in {"R", "RW"}
                  /\ InList(t, hsmp_get_msgs)
                  /\ ~InList(t, hsmp_set_msgs)
                  /\ th[t].fetched /\ th[t].invoked
                  /\ th[t].mbox_status = HSMP_STATUS_OK
                  /\ th[t].copied => ( th[t].err = OK /\ th[t].ret = OK )
            /\ ( th[t].pc = "done" /\ th[t].ret # OK ) =>
                  ( ~th[t].copied /\ ~th[t].partial )
            /\ ( th[t].pc = "done" /\ th[t].ret = OK /\ th[t].copy ) =>
                  th[t].copied

\* C38, amended: as above, except that the error return of a failed copy
\* back, -EFAULT after a successful exchange, may leave a leading part of
\* the message in the buffer
C38_CopyBackOnlyOnGetSuccessOrPartly ==
    \A t \in Threads :
        IsIoctl(t) =>
            /\ ( th[t].copied \/ th[t].partial ) =>
                  /\ th[t].f_mode \in {"R", "RW"}
                  /\ InList(t, hsmp_get_msgs)
                  /\ ~InList(t, hsmp_set_msgs)
                  /\ th[t].fetched /\ th[t].invoked
                  /\ th[t].mbox_status = HSMP_STATUS_OK
                  /\ th[t].copied => ( th[t].err = OK /\ th[t].ret = OK )
            /\ ( th[t].pc = "done" /\ th[t].ret # OK ) =>
                  /\ ~th[t].copied
                  /\ th[t].partial =>
                        ( th[t].ret = EFAULT /\ th[t].releases = 1 )
            /\ ( th[t].pc = "done" /\ th[t].ret = OK /\ th[t].copy ) =>
                  th[t].copied

\* C38 witness: a caller that may read and write has sent a get message
\* with response words, the exchange has succeeded and the message has
\* been copied back
C38_Witness ==
    \E t \in Threads :
        /\ IsIoctl(t)
        /\ th[t].pc = "done"
        /\ th[t].f_mode = "RW"
        /\ th[t].msg_id = HSMP_GET_SOCKET_POWER
        /\ th[t].response_sz = HSMP_MAX_MSG_LEN
        /\ th[t].ret = OK
        /\ th[t].copied

\* The record at the head of the group of four of socket s
HeadOf(s) == init.nbios[4 * s]

\* C39: after a successful get_system_topology the device cached for
\* socket s is that of the record at sorted position 4 * s, the host bridge
\* with the smallest bus base of the socket's four, with 4 and with 8
\* tiles and in every order of enumeration, and the register read of every
\* tile 4 * s .. 4 * s + 3 went through that device
C39_SocketDevIsFirstTile ==
    ( driver = "pci" /\ init.topoErr = OK ) =>
        /\ \A s \in 0 .. (init.amd_num_sockets - 1) :
              /\ init.sockdev[s] = HeadOf(s).dev
              /\ init.sockdev[s] # NULL
              /\ \A k \in (4 * s) .. (4 * s + 3) :
                    HeadOf(s).bus_base <= init.nbios[k].bus_base
        /\ Len(init.via) = init.num_nbios
        /\ \A i \in 0 .. (init.num_nbios - 1) :
              init.via[i + 1] = HeadOf(i \div 4).dev

\* C39 witness: eight host bridges were found in descending order of bus,
\* the discovery has succeeded, socket 0 has the device found last, the
\* one on bus 0, and socket 1 the device found fourth, the one on bus 64
C39_Witness ==
    /\ driver = "pci"
    /\ init.topoErr = OK
    /\ init.num_nbios = 8
    /\ init.sockdev = [s \in Sockets |-> IF s = 0 THEN 8 ELSE 4]
    /\ HeadOf(0).bus_base = 0
    /\ HeadOf(1).bus_base = 64
    /\ init.via = <<8, 8, 8, 8, 4, 4, 4, 4>>

\* The signed value of a 32-bit word given as its two halves
SignedOf(w) ==
    IF w[1] >= U16 \div 2 THEN (w[1] - U16) * U16 + w[2]
    ELSE w[1] * U16 + w[2]

\* q is val / 1000 with the fraction dropped
IsTruncatedThousandth(q, val) ==
    IF val >= 0 THEN q >= 0 /\ q * 1000 <= val /\ val < (q + 1) * 1000
    ELSE q <= 0 /\ q * 1000 >= val /\ val > (q - 1) * 1000

\* The get message of an attribute of the power sensor
GetMessageOf(attr) ==
    CASE attr = "hwmon_power_input" -> HSMP_GET_SOCKET_POWER
      [] attr = "hwmon_power_cap" -> HSMP_GET_SOCKET_POWER_LIMIT
      [] attr = "hwmon_power_cap_max" -> HSMP_GET_SOCKET_POWER_LIMIT_MAX

\* C40: hsmp_hwmon_write and hsmp_hwmon_read return -EOPNOTSUPP without
\* sending for every sensor type other than power and for every attribute
\* they do not support; a write of val microwatts to the power cap sends
\* exactly one HSMP_SET_SOCKET_POWER_LIMIT message with the one argument
\* val / 1000, the fraction dropped, to the socket of the sensor; a read
\* sends exactly one get message, the one of the attribute, with no
\* argument and response_sz 1, and stores a value only when the exchange
\* has succeeded
C40_HwmonMessages ==
    \A t \in ApiCallers :
        ( th[t].fn = "api" /\ th[t].pc = "api_done"
          /\ th[t].api \in HwmonFunctions ) =>
            LET a == th[t].a
                wr == th[t].api = "hsmp_hwmon_write"
                supported == IF wr THEN {"hwmon_power_cap"}
                             ELSE {"hwmon_power_input", "hwmon_power_cap",
                                   "hwmon_power_cap_max"}
            IN IF a.type # "hwmon_power" \/ a.attr \notin supported
               THEN /\ th[t].ret = EOPNOTSUPP
                    /\ th[t].sent = << >>
                    /\ ~wr => th[t].out = <<CALLER>>
               ELSE /\ Len(th[t].sent) = 1
                    /\ th[t].sent[1].sock = a.socket_id
                    /\ th[t].ret = th[t].results[1]
                    /\ IF wr
                       THEN /\ th[t].sent[1].msg_id
                                  = HSMP_SET_SOCKET_POWER_LIMIT
                            /\ th[t].sent[1].num_args = 1
                            /\ IsTruncatedThousandth(
                                  SignedOf(th[t].sent[1].arg), a.val)
                       ELSE /\ th[t].sent[1].msg_id = GetMessageOf(a.attr)
                            /\ th[t].sent[1].num_args = 0
                            /\ th[t].sent[1].response_sz = 1
                            /\ th[t].out =
                                  << IF th[t].ret = OK THEN RESP
                                     ELSE CALLER >>

\* C40 witness: 1999 microwatts have been written to the power cap of the
\* sensor of socket 1, and one HSMP_SET_SOCKET_POWER_LIMIT message with the
\* argument 1 has gone to socket 1
C40_Witness ==
    \E t \in ApiCallers :
        /\ th[t].fn = "api" /\ th[t].pc = "api_done"
        /\ th[t].api = "hsmp_hwmon_write"
        /\ th[t].a.val = 1999
        /\ th[t].a.socket_id = 1
        /\ Len(th[t].sent) = 1
        /\ th[t].sent[1].sock = 1
        /\ th[t].sent[1].arg = <<0, 1>>
        /\ th[t].ret = OK

=============================================================================
